---- MODULE Spec2Model ----
(***************************************************************************)
(* A model of the live index of stract                                     *)
(* (crates/core/src/live_index/index.rs): one InnerIndex with its          *)
(* write-ahead log, its Meta (in memory and in meta.json) and the          *)
(* inverted index it owns, driven through the LiveIndex handle.            *)
(*                                                                         *)
(* The inverted index (crate::index::Index / InvertedIndex), the WAL       *)
(* (simple_wal) and the indexing worker are collaborators whose code is    *)
(* outside the modelled files; they are modelled from their contract:      *)
(* a segment store with insert/commit/start_merge/end_merge/delete.        *)
(***************************************************************************)
EXTENDS Integers, Sequences, FiniteSets, TLC

\* ------------------------------------------------------------------
\* Bounds of the model
\* ------------------------------------------------------------------

\* total number of pages ever handed to insert()
MaxPages == 3
\* number of segment ids the store ever hands out
MaxSegId == 4
\* the clock stops here
MaxTime == 2
\* the number of different URLs
NumUrls == 3
\* the number of times the process dies
MaxCrashes == 1
\* the URLs pages are drawn from
Urls == 1..NumUrls
\* the lengths of the slices insert() is given
InsertLens == {1, 2}
\* clock ticks per UTC calendar day (created.date_naive())
DayLen == 2

\* live_index::BATCH_SIZE (pages per group) and live_index::TTL (in clock
\* ticks), scaled down to the bounds above
BATCH_SIZE == 2
TTL == 1

VARIABLES
    up,           \* the process is running (an InnerIndex exists)
    wal,          \* write_ahead_log: the pages on disk, in write order
    has_inserts,  \* InnerIndex.has_inserts
    meta,         \* InnerIndex.meta.segments (in memory)
    metaFile,     \* meta.json
    store,        \* the committed segments of the inverted index
    nextId,       \* the next fresh SegmentId of the store
    nextPage,     \* ordinal of the next page handed to insert()
    now,          \* the latest reading of Utc::now()
    compact,      \* the compaction call between its two phases
    crashes,      \* how many times the process died
    last,         \* observation of the most recent operation
    written       \* for each page, when a commit last wrote it to the index

\* the live index of one shard
liveVars == <<up, wal, has_inserts, meta, metaFile, store, nextId, nextPage, now,
              compact, crashes, last, written>>

VARIABLES
    inner,        \* LiveIndex.inner: the RwLock around the InnerIndex
    task          \* the callers of LiveIndex methods and where each one is

\* the lock of a live index and its callers
lockVars == <<inner, task>>

VARIABLES
    corpus,       \* the documents that match the query, in address order
    collector,    \* the TopDocsCollector of the query
    tpc,          \* how far the collection has come
    segFruits,    \* the fruit of each segment
    shardFruits,  \* the fruit of each shard
    result        \* the fruit of the final merge

\* a top-docs collection over the shards
topVars == <<corpus, collector, tpc, segFruits, shardFruits, result>>

VARIABLES
    top_websites,      \* the pointers retrieve_webpages is given
    debug_assertions,  \* the build checks debug_assert!
    spc,               \* how far the call of the searcher has come
    futures,           \* the per-shard requests, in the order of the HashMap
    replies,           \* what each per-shard future resolved to
    out,               \* what retrieve_webpages returned
    sent,              \* what send gave search_initial
    initial            \* what search_initial returned

\* a call of the distributed searcher
searchVars == <<top_websites, debug_assertions, spc, futures, replies, out, sent,
                initial>>

VARIABLES
    gcall,        \* the generic call: which function, how many queries, the build
    gpc,          \* how far the generic call has come
    gsent,        \* what the shards gave the generic call
    gret          \* what the generic call returned

\* a call of one of the generic paths of the distributed searcher
genVars == <<gcall, gpc, gsent, gret>>

VARIABLES
    members,        \* cluster.members(): the services of the cluster
    search_client,  \* the latest client of the SearchService
    live_client     \* the latest client of the LiveIndexService

\* the cluster and the clients built from it
routeVars == <<members, search_client, live_client>>

VARIABLES
    edges,        \* the edges of the combined graph, in insertion order
    dht,          \* the CentralityTables the mappers write
    prev,         \* the CentralityTables as the round before left them
    coord,        \* the coordinator: round, jobs to dispatch, jobs done
    workers       \* the job and the progress of every worker

\* a centrality computation
ampcVars == <<edges, dht, prev, coord, workers>>

VARIABLES
    rclock,            \* the reading of the monotonic clock (Instant::now())
    cache,             \* InnerRobotsTxtManager.cache
    last_prune,        \* InnerRobotsTxtManager.last_prune
    cache_expiration,  \* InnerRobotsTxtManager.cache_expiration
    getters,           \* the calls of get() and where each one is
    robs               \* observation of the latest call of get()

\* the robots.txt cache of the crawler
robotsVars == <<rclock, cache, last_prune, cache_expiration, getters, robs>>

VARIABLES
    str_a,        \* the first argument of possible_errors
    str_b,        \* the second argument of possible_errors
    errs          \* what possible_errors returned

\* a call of possible_errors
spellVars == <<str_a, str_b, errs>>

VARIABLES
    column,       \* the values recorded for the sort field, row by row
    col_present,  \* the writer holds a numerical column for the sort field
    reversed,     \* the argument reversed of sort_order
    doc_order     \* what sort_order returned

\* a call of ColumnarWriter::sort_order
colVars == <<column, col_present, reversed, doc_order>>

VARIABLES
    state_lock,   \* LiveIndex.inner as the compaction and the searches meet it
    index_lock,   \* InnerIndex.index: the RwLock around the Index
    compaction,   \* a call of compact_segments_by_date and where it is
    searches      \* the searches on the index of the live index

\* a compaction next to the searches of the live index
phaseVars == <<state_lock, index_lock, compaction, searches>>

\* the components that follow the searcher
laterVars == <<genVars, routeVars, ampcVars, robotsVars, spellVars, colVars, phaseVars>>

\* everything but the live index
nonLive == <<lockVars, topVars, searchVars, laterVars>>

\* everything but the lock of the live index
nonLock == <<liveVars, topVars, searchVars, laterVars>>

\* everything but the top-docs collection
nonTop == <<liveVars, lockVars, searchVars, laterVars>>

\* everything but the distributed searcher
nonSearch == <<liveVars, lockVars, topVars, laterVars>>

\* everything but the generic paths
nonGen == <<liveVars, lockVars, topVars, searchVars, routeVars, ampcVars, robotsVars, spellVars, colVars, phaseVars>>

\* everything but the cluster and its clients
nonRoute == <<liveVars, lockVars, topVars, searchVars, genVars, ampcVars, robotsVars, spellVars, colVars, phaseVars>>

\* everything but the centrality computation
nonAmpc == <<liveVars, lockVars, topVars, searchVars, genVars, routeVars, robotsVars, spellVars, colVars, phaseVars>>

\* everything but the robots.txt cache
nonRobots == <<liveVars, lockVars, topVars, searchVars, genVars, routeVars, ampcVars, spellVars, colVars, phaseVars>>

\* everything but the spell checker
nonSpell == <<liveVars, lockVars, topVars, searchVars, genVars, routeVars, ampcVars, robotsVars, colVars, phaseVars>>

\* everything but the columnar writer
nonCol == <<liveVars, lockVars, topVars, searchVars, genVars, routeVars, ampcVars, robotsVars, spellVars, phaseVars>>

\* an action of the compaction and the searches leaves these alone
nonPhase == <<liveVars, lockVars, topVars, searchVars, genVars, routeVars, ampcVars, robotsVars, spellVars, colVars>>

vars == <<liveVars, lockVars, topVars, searchVars, laterVars>>

\* ------------------------------------------------------------------
\* Helpers on sequences
\* ------------------------------------------------------------------

Range(s) == {s[i] : i \in DOMAIN s}

RECURSIVE SetToSeqs(_)
\* every ordering of a finite set (the iteration orders of a HashSet/HashMap)
SetToSeqs(S) ==
    IF S = {} THEN {<<>>}
    ELSE UNION {{<<x>> \o t : t \in SetToSeqs(S \ {x})} : x \in S}

RECURSIVE Concat(_)
Concat(ss) == IF ss = <<>> THEN <<>> ELSE Head(ss) \o Concat(Tail(ss))

Max(S) == CHOOSE x \in S : \A y \in S : y <= x

Min(S) == CHOOSE x \in S : \A y \in S : x <= y

\* ------------------------------------------------------------------
\* Segment, Meta
\* ------------------------------------------------------------------

\* struct Segment { id, created }
Segment(id, created) == [id |-> id, created |-> created]

MetaIds(m) == {m[i].id : i \in DOMAIN m}

\* created.date_naive()
DateNaive(t) == t \div DayLen

\* ------------------------------------------------------------------
\* The segment store (contract of the inverted index)
\* ------------------------------------------------------------------

StoreIds(st) == {s.id : s \in st}

StoreSeg(st, id) == CHOOSE s \in st : s.id = id

\* index.insert(..)* ; index.commit(): the inserted documents become one new
\* segment; a commit without documents adds none
StoreCommit(st, docs, id) ==
    IF docs = <<>> THEN st ELSE st \cup {[id |-> id, docs |-> Range(docs)]}

\* delete_segments_by_id
StoreDelete(st, ids) == {s \in st : s.id \notin ids}

\* the documents (pages) a search can reach
StoreDocs(st) == UNION {s.docs : s \in st}

\* the segments of ids the store has
StoreSegs(st, ids) == {s \in st : s.id \in ids}

\* no segment entry (Option::None)
NoEntry == [id |-> 0, docs |-> {}]

\* start_merge_segments_by_id: fails when a segment is not in the store;
\* otherwise the merged segment entry under a fresh id, or no entry when the
\* store finds no document left in the segments (empty)
StoreStartMerge(st, ids, id, empty) ==
    IF ~(ids \subseteq StoreIds(st)) THEN [ok |-> FALSE, entry |-> NoEntry]
    ELSE IF empty THEN [ok |-> TRUE, entry |-> NoEntry]
    ELSE [ok |-> TRUE,
          entry |-> [id |-> id, docs |-> StoreDocs(StoreSegs(st, ids))]]

\* an end_merge_segments_by_id that installs the entry whether or not the
\* merged segments are still in the store
StoreEndMergeOfGone(st, ids, entry) ==
    [ok |-> TRUE,
     store |-> StoreDelete(st, ids) \cup (IF entry = NoEntry THEN {} ELSE {entry}),
     id |-> entry.id]

\* end_merge_segments_by_id: fails when a merged segment is no longer in the
\* store; otherwise the merged segments give way to the entry, if there is one
StoreEndMerge(st, ids, entry) ==
    IF ~(ids \subseteq StoreIds(st)) THEN [ok |-> FALSE, store |-> st, id |-> 0]
    ELSE [ok |-> TRUE,
          store |-> StoreDelete(st, ids) \cup (IF entry = NoEntry THEN {} ELSE {entry}),
          id |-> entry.id]

\* ------------------------------------------------------------------
\* commit(): unique_by(url).chunks(BATCH_SIZE)
\* ------------------------------------------------------------------

RECURSIVE UniqueByFrom(_, _)
UniqueByFrom(w, seen) ==
    IF w = <<>> THEN <<>>
    ELSE IF Head(w).url \in seen THEN UniqueByFrom(Tail(w), seen)
    ELSE <<Head(w)>> \o UniqueByFrom(Tail(w), seen \cup {Head(w).url})

\* itertools unique_by(|page| page.url): the first page of each URL
UniqueByUrl(w) == UniqueByFrom(w, {})

\* a chunks(n) that never cuts
ChunksUncut(s, n) == IF s = <<>> THEN <<>> ELSE <<s>>

RECURSIVE Chunks(_, _)
\* itertools chunks(n)
Chunks(s, n) ==
    IF s = <<>> THEN <<>>
    ELSE IF Len(s) <= n THEN <<s>>
    ELSE <<SubSeq(s, 1, n)>> \o Chunks(SubSeq(s, n + 1, Len(s)), n)

\* the groups commit() hands to prepare_webpages, in order
CommitGroups(w) == Chunks(UniqueByUrl(w), BATCH_SIZE)

\* indexing_worker.prepare_webpages: one prepared document per page
PrepareWebpages(batch) == batch

\* ------------------------------------------------------------------
\* sync_meta_with_index
\* ------------------------------------------------------------------

\* a sync_meta_with_index that forgets to drop the segments the index lost
SyncMetaKeepsAll(m, st, t) ==
    LET fresh == {id \in StoreIds(st) : id \notin MetaIds(m)}
    IN {m \o [i \in DOMAIN o |-> Segment(o[i], t)] : o \in SetToSeqs(fresh)}

\* the Metas sync_meta_with_index can leave: the segments of m the store still
\* has, then one new Segment{id, created: now} per store-only id, in the
\* iteration order of the HashSet
SyncMeta(m, st, t) ==
    LET inIndex == StoreIds(st)
        inMeta  == MetaIds(m)
        to_remove == {id \in inMeta : id \notin inIndex}
        kept == SelectSeq(m, LAMBDA s : s.id \notin to_remove)
        fresh == {id \in inIndex : id \notin inMeta}
    IN {kept \o [i \in DOMAIN o |-> Segment(o[i], t)] : o \in SetToSeqs(fresh)}

\* ------------------------------------------------------------------
\* Observation of the last operation
\* ------------------------------------------------------------------

\* op: the operation; pages: the slice given to insert, or the WAL a commit
\* started from; groups: the groups a commit handed to the indexing worker;
\* meta0: Meta before a commit or a prune; merges: the merges phase 2 of a
\* compaction ended; meta1: Meta as phase 1 of that compaction saw it; clean:
\* Meta was still the same when phase 2 began
NoObs == [op |-> "init", pages |-> <<>>, groups |-> <<>>, meta0 |-> <<>>,
          merges |-> <<>>, meta1 |-> <<>>, clean |-> FALSE]

Obs(op) == [NoObs EXCEPT !.op = op]

\* no compaction is between its phases
Idle == [pc |-> "idle", ops |-> <<>>, meta1 |-> <<>>]

\* ------------------------------------------------------------------
\* The lock of LiveIndex and the tasks that call its methods
\* ------------------------------------------------------------------

\* the tasks that call methods of one LiveIndex at the same time
NumTasks == 2
Tasks == 1..NumTasks
\* the number of steps a method takes while it holds the lock
BodyLen == 2

\* the methods of LiveIndex that lock `inner`
Methods == {"commit", "prune_segments", "has_inserts", "compact_segments_by_date",
            "insert", "delete_all_pages", "meta"}

\* an insert that only takes the read lock
SectionsInsertShared(m) ==
    CASE m = "compact_segments_by_date" -> <<"read", "write">>
      [] m \in {"has_inserts", "meta", "insert"} -> <<"read">>
      [] OTHER -> <<"write">>

\* the lock sections of a method, in order: self.inner.read().await or
\* self.inner.write().await; the guard is a temporary dropped at the end of
\* the statement
Sections(m) ==
    CASE m = "compact_segments_by_date" -> <<"read", "write">>
      [] m \in {"has_inserts", "meta"} -> <<"read">>
      [] OTHER -> <<"write">>

NoTask == [m |-> "none", sec |-> 0, pc |-> "idle", step |-> 0]

Unlocked == [writer |-> 0, readers |-> {}]

\* nobody calls the live index
NoCallers ==
    /\ inner = Unlocked
    /\ task = [t \in Tasks |-> NoTask]

\* RwLock: a writer needs the lock free, a reader needs it free of a writer
CanLock(l, mode) ==
    IF mode = "write" THEN l.writer = 0 /\ l.readers = {} ELSE l.writer = 0

Lock(l, mode, t) ==
    IF mode = "write" THEN [l EXCEPT !.writer = t]
    ELSE [l EXCEPT !.readers = @ \cup {t}]

Unlock(l, t) ==
    [writer |-> IF l.writer = t THEN 0 ELSE l.writer, readers |-> l.readers \ {t}]

\* a task calls a method of LiveIndex
Call ==
    \E t \in Tasks, m \in Methods :
        /\ task[t].pc = "idle"
        /\ task' = [task EXCEPT ![t] = [m |-> m, sec |-> 1, pc |-> "waiting", step |-> 0]]
        /\ UNCHANGED <<inner, nonLock>>

\* .read().await / .write().await returns the guard
Acquire ==
    \E t \in Tasks :
        /\ task[t].pc = "waiting"
        /\ CanLock(inner, Sections(task[t].m)[task[t].sec])
        /\ inner' = Lock(inner, Sections(task[t].m)[task[t].sec], t)
        /\ task' = [task EXCEPT ![t].pc = "holding"]
        /\ UNCHANGED nonLock

\* one step of the method of InnerIndex, under the guard
Step ==
    \E t \in Tasks :
        /\ task[t].pc = "holding"
        /\ task[t].step < BodyLen
        /\ task' = [task EXCEPT ![t].step = @ + 1]
        /\ UNCHANGED <<inner, nonLock>>

\* the guard is dropped; the method goes on to its next section or returns
Release ==
    \E t \in Tasks :
        /\ task[t].pc = "holding"
        /\ task[t].step = BodyLen
        /\ inner' = Unlock(inner, t)
        /\ task' = [task EXCEPT ![t] =
                        IF task[t].sec < Len(Sections(task[t].m))
                        THEN [@ EXCEPT !.sec = @ + 1, !.pc = "waiting", !.step = 0]
                        ELSE NoTask]
        /\ UNCHANGED nonLock

\* ------------------------------------------------------------------
\* TopDocsCollector: segment fruits, shard fruits, the coordinator's merge
\* ------------------------------------------------------------------

\* the number of documents that match the query
MaxDocs == 3
\* the ranks a DocumentScorer gives (lower is better)
MaxRank == 3
\* the number of different hosts
NumHosts == 2
\* the segments of each shard: shard 1 has segments 1 and 2, shard 2 has 3
SegmentsOfShard == <<(<<1, 2>>), (<<3>>)>>
Shards == DOMAIN SegmentsOfShard
Segments == UNION {Range(SegmentsOfShard[sh]) : sh \in Shards}

\* top_docs::DEDUPLICATION_BUFFER, scaled down to the bounds above
DEDUPLICATION_BUFFER == 1

\* Option::None of limit and offset
None == -1
Limits == {None, 1, 2}
Offsets == {None, 0, 1, 2}

Front(s) == SubSeq(s, 1, Len(s) - 1)

Last(s) == s[Len(s)]

\* Iterator::take and Iterator::skip
Take(s, n) == SubSeq(s, 1, IF n < Len(s) THEN n ELSE Len(s))

Skip(s, n) == SubSeq(s, (IF n < Len(s) THEN n ELSE Len(s)) + 1, Len(s))

RECURSIVE KeepAt(_, _)
\* the elements of s at the positions I, in the order of s
KeepAt(s, I) ==
    IF s = <<>> THEN <<>>
    ELSE KeepAt(Front(s), I) \o (IF Len(s) \in I THEN <<Last(s)>> ELSE <<>>)

\* the documents a query matches: rank, host and segment of each, listed in
\* the order of their addresses (shard, segment, doc id)
Corpus(n, rh, sg) ==
    [i \in 1..n |-> [rank |-> rh[i].rank, host |-> rh[i].host, seg |-> sg[i]]]

\* (rank, DocAddressWithHost {address, host}) of the i-th document
Candidate(c, i) == [rank |-> c[i].rank, host |-> c[i].host, addr |-> i]

\* the order of ComparableDoc<u64, Doc, false>: by rank, then by document
ComparableLess(a, b) == a.rank < b.rank \/ (a.rank = b.rank /\ a.addr < b.addr)

RECURSIVE SortComparable(_)
\* TopNComputer::into_sorted_vec: ascending in the order of ComparableDoc
SortComparable(docs) ==
    IF docs = <<>> THEN <<>>
    ELSE LET s == SortComparable(Front(docs))
             d == Last(docs)
             k == Cardinality({i \in DOMAIN s : ComparableLess(s[i], d)})
         IN SubSeq(s, 1, k) \o <<d>> \o SubSeq(s, k + 1, Len(s))

RECURSIVE SortByRank(_)
\* docs.sort_by(|(rank1, _), (rank2, _)| rank1.cmp(rank2)): stable
SortByRank(docs) ==
    IF docs = <<>> THEN <<>>
    ELSE LET s == SortByRank(Front(docs))
             d == Last(docs)
             k == Cardinality({i \in DOMAIN s : s[i].rank <= d.rank})
         IN SubSeq(s, 1, k) \o <<d>> \o SubSeq(s, k + 1, Len(s))

\* TopNComputer::new(n), push of every document, into_sorted_vec: the n
\* lowest documents, ascending
TopNHarvest(n, docs) == Take(SortComparable(docs), n)

\* AllComputer: push of every document, harvest
AllHarvest(docs) == SortByRank(docs)

\* a computer that bounds the candidates only when limit and offset are
\* both given
ComputerOfBothOnly(c) ==
    IF c.offset # None /\ c.limit # None
    THEN c.limit + c.offset + DEDUPLICATION_BUFFER
    ELSE 0

\* TopDocsCollector::computer: the computer of a collector, 0 for
\* Computer::All and n for Computer::TopN(n)
Computer(c) ==
    CASE c.offset # None /\ c.limit # None -> c.limit + c.offset + DEDUPLICATION_BUFFER
      [] c.offset # None /\ c.limit = None -> 0
      [] c.offset = None /\ c.limit # None -> c.limit + DEDUPLICATION_BUFFER
      [] OTHER -> 0

\* Computer::push of every document, then Computer::harvest
Harvest(n, docs) == IF n = 0 THEN AllHarvest(docs) ELSE TopNHarvest(n, docs)

\* a deduplicator that keeps every document
KeepEveryHost(docs) == docs

\* HostDeduplicator::deduplicate: unique_by(host), the first document of
\* each host in the order of the vector
HostDeduplicate(docs) ==
    KeepAt(docs, {i \in DOMAIN docs : \A j \in 1..(i - 1) : docs[j].host # docs[i].host})

\* self.deduplicator.deduplicate: HostDeduplicator or NoDeduplicator
Deduplicate(c, docs) == IF c.dedup THEN HostDeduplicate(docs) ELSE docs

\* TopDocsSegmentCollector::collect of every matching document of the
\* segment, in doc id order, then harvest
SegmentFruit(c, corp, seg) ==
    Harvest(Computer(c),
            KeepAt([i \in DOMAIN corp |-> Candidate(corp, i)],
                   {i \in DOMAIN corp : corp[i].seg = seg}))

\* the shard-side mode of merge_fruits: take(limit + DEDUPLICATION_BUFFER)
ShardTake(c, harvested) ==
    Take(harvested, IF c.limit = None THEN Len(harvested)
                    ELSE c.limit + DEDUPLICATION_BUFFER)

\* the perform-offset mode of merge_fruits: skip(offset).take(limit)
OffsetTake(c, harvested) ==
    Take(Skip(harvested, IF c.offset = None THEN 0 ELSE c.offset),
         IF c.limit = None THEN Len(harvested) ELSE c.limit)

\* TopDocsCollector::merge_fruits
MergeFruits(c, fruits) ==
    LET before_deduplication == Concat(fruits)
        deduplicated == Deduplicate(c, before_deduplication)
        harvested == Harvest(Computer(c), deduplicated)
    IN IF c.perform_offset THEN OffsetTake(c, harvested)
       ELSE ShardTake(c, harvested)

NoCollector == [limit |-> None, offset |-> None, perform_offset |-> TRUE, dedup |-> FALSE]

\* no query is running
NoCollection ==
    /\ corpus = <<>>
    /\ collector = NoCollector
    /\ tpc = "off"
    /\ segFruits = <<>>
    /\ shardFruits = <<>>
    /\ result = <<>>

\* a query with its limit, offset and deduplicator meets its documents
TopInit ==
    /\ \E n \in 1..MaxDocs :
          \E sg \in {f \in [1..n -> Segments] : \A i \in 1..(n - 1) : f[i] <= f[i + 1]} :
              \E rh \in [1..n -> [rank : 1..MaxRank, host : 1..NumHosts]] :
                  corpus = Corpus(n, rh, sg)
    /\ collector \in [limit : Limits, offset : Offsets, perform_offset : {FALSE},
                      dedup : BOOLEAN]
    /\ tpc = "segments"
    /\ segFruits = <<>>
    /\ shardFruits = <<>>
    /\ result = <<>>

\* Collector::collect_segment on every segment, with the shard-side
\* collector (disable_offset)
CollectSegments ==
    /\ tpc = "segments"
    /\ segFruits' = [seg \in Segments |-> SegmentFruit(collector, corpus, seg)]
    /\ tpc' = "shards"
    /\ UNCHANGED <<corpus, collector, shardFruits, result, nonTop>>

\* merge_fruits of the shard-side collector on every shard, over the fruits
\* of the segments of the shard
MergeShards ==
    /\ tpc = "shards"
    /\ shardFruits' = [sh \in Shards |->
          MergeFruits(collector,
                      [k \in DOMAIN SegmentsOfShard[sh] |->
                          segFruits[SegmentsOfShard[sh][k]]])]
    /\ tpc' = "coordinator"
    /\ UNCHANGED <<corpus, collector, segFruits, result, nonTop>>

\* merge_fruits of the coordinator's collector (enable_offset) over the
\* fruits of the shards
MergeCoordinator ==
    /\ tpc = "coordinator"
    /\ result' = MergeFruits([collector EXCEPT !.perform_offset = TRUE], shardFruits)
    /\ tpc' = "merged"
    /\ UNCHANGED <<corpus, collector, segFruits, shardFruits, nonTop>>

\* merge_fruits of a collector in perform-offset mode directly over the
\* fruits of the segments (a search of one local graph)
MergeLocal ==
    /\ tpc = "shards"
    /\ result' = MergeFruits([collector EXCEPT !.perform_offset = TRUE],
                             [k \in 1..Cardinality(Segments) |-> segFruits[k]])
    /\ tpc' = "local"
    /\ UNCHANGED <<corpus, collector, segFruits, shardFruits, nonTop>>

\* ------------------------------------------------------------------
\* DistributedSearcher: search_initial and retrieve_webpages
\* ------------------------------------------------------------------

\* the shards of the cluster
NumSearchShards == 2
SearchShards == 1..NumSearchShards
\* the pages a pointer can point to, and the longest top_websites
NumPages == 3
WebPages == 1..NumPages

\* ScoredWebpagePointer {website, shard}: sequences of pointers to different
\* pages
TopWebsites ==
    {tw \in UNION {[1..n -> [shard : SearchShards, website : [pointer : WebPages]]] :
                     n \in 0..NumPages} :
        \A i \in DOMAIN tw : \A j \in DOMAIN tw : i # j => tw[i].website # tw[j].website}

\* a grouping that hands every pointer to every shard
PointersOfAnyShard(tw, shard) == [i \in DOMAIN tw |-> <<i, tw[i].website.pointer>>]

\* pointers.entry(pointer.shard).or_default().push((i, pointer)): the
\* pointers of one shard with their indexes, in input order
PointersOf(tw, shard) ==
    KeepAt([i \in DOMAIN tw |-> <<i, tw[i].website.pointer>>],
           {i \in DOMAIN tw : tw[i].shard = shard})

\* what client.send gives for one shard: an error of the call, an answer
\* without an entry for the shard, an entry whose replica gave no response,
\* or an entry with the response of one replica
Outcomes == {"err", "missing", "none", "ok"}

\* the response of a shard to RetrieveWebsites: the page of every pointer,
\* in the order of the pointers
RetrieveWebsites(websites) == [k \in DOMAIN websites |-> [page |-> websites[k]]]

\* client.send(RetrieveWebsites {websites, query}, SpecificShardSelector(shard),
\* RandomReplicaSelector)
SendRetrieve(outcome, shard, websites) ==
    CASE outcome = "err" -> [ok |-> FALSE, entries |-> <<>>]
      [] outcome = "missing" -> [ok |-> TRUE, entries |-> <<>>]
      [] outcome = "none" ->
            [ok |-> TRUE,
             entries |-> <<[shard |-> shard,
                            replies |-> <<[some |-> FALSE, val |-> <<>>]>>]>>]
      [] OTHER ->
            [ok |-> TRUE,
             entries |-> <<[shard |-> shard,
                            replies |-> <<[some |-> TRUE,
                                           val |-> RetrieveWebsites(websites)]>>]>>]

\* .flatten().flat_map(|(_, v)| v.into_iter().map(|(_, v)| v)).flatten().flatten():
\* the pages of the responses that hold pages
FlattenPages(entries) ==
    Concat([e \in DOMAIN entries |->
        Concat([r \in DOMAIN entries[e].replies |->
            IF entries[e].replies[r].some THEN entries[e].replies[r].val ELSE <<>>])])

\* zip_eq(idxs): panics when the two have different lengths
ZipEq(pages, idxs) ==
    IF Len(pages) # Len(idxs) THEN [panic |-> TRUE, pages |-> <<>>]
    ELSE [panic |-> FALSE, pages |-> [k \in DOMAIN idxs |-> <<idxs[k], pages[k]>>]]

\* DistributedSearcher::retrieve_webpages_from_shard
RetrieveFromShard(outcome, shard, pointers) ==
    LET idxs == [k \in DOMAIN pointers |-> pointers[k][1]]
        websites == [k \in DOMAIN pointers |-> pointers[k][2]]
        res == SendRetrieve(outcome, shard, websites)
    IN IF res.ok THEN ZipEq(FlattenPages(res.entries), idxs)
       ELSE [panic |-> FALSE, pages |-> <<>>]

\* the retrieved pages left in the order the futures were pushed
Unsorted(pages) == pages

RECURSIVE SortByIndex(_)
\* retrieved_webpages.sort_by(|(a, _), (b, _)| a.cmp(b)): stable
SortByIndex(pages) ==
    IF pages = <<>> THEN <<>>
    ELSE LET s == SortByIndex(Front(pages))
             d == Last(pages)
             k == Cardinality({i \in DOMAIN s : s[i][1] <= d[1]})
         IN SubSeq(s, 1, k) \o <<d>> \o SubSeq(s, k + 1, Len(s))

\* PrecisionRankingWebpage::new(page, rankings[&i].clone())
PrecisionRankingWebpage(tw, p) == <<p[1], [page |-> p[2].page, ranking |-> tw[p[1]].website]>>

NoFuture == [done |-> FALSE, outcome |-> "pending", panic |-> FALSE, pages |-> <<>>]

NoOut == [status |-> "none", pages |-> <<>>]

NoSent == [ok |-> FALSE, entries |-> <<>>]

\* no call of the searcher is running
NoSearch ==
    /\ top_websites = <<>>
    /\ debug_assertions = FALSE
    /\ spc = "off"
    /\ futures = <<>>
    /\ replies = <<>>
    /\ out = NoOut
    /\ sent = NoSent
    /\ initial = <<>>

\* a searcher of either build, and the pointers the caller chose
SearchInit ==
    /\ top_websites \in TopWebsites
    /\ debug_assertions \in BOOLEAN
    /\ spc = "start"
    /\ futures = <<>>
    /\ replies = <<>>
    /\ out = NoOut
    /\ sent = NoSent
    /\ initial = <<>>

\* retrieve_webpages up to join_all: the pointers grouped by shard, one
\* future per group in the order the HashMap yields the shards
Retrieve ==
    /\ spc = "start"
    /\ \E order \in SetToSeqs({top_websites[i].shard : i \in DOMAIN top_websites}) :
          futures' = [k \in DOMAIN order |->
                         [shard |-> order[k], pointers |-> PointersOf(top_websites, order[k])]]
    /\ replies' = [k \in DOMAIN futures' |-> NoFuture]
    /\ spc' = "waiting"
    /\ UNCHANGED <<top_websites, debug_assertions, out, sent, initial, nonSearch>>

\* one of the futures resolves, in any order
ShardReply ==
    /\ spc = "waiting"
    /\ \E k \in DOMAIN futures : \E outcome \in Outcomes :
          /\ ~replies[k].done
          /\ LET r == RetrieveFromShard(outcome, futures[k].shard, futures[k].pointers)
             IN replies' = [replies EXCEPT ![k] =
                    [done |-> TRUE, outcome |-> outcome, panic |-> r.panic, pages |-> r.pages]]
    /\ UNCHANGED <<top_websites, debug_assertions, spc, futures, out, sent, initial,
                   nonSearch>>

\* join_all returns: the pages of the futures in their order, the
\* debug_assert_eq, the sort by index
Join ==
    /\ spc = "waiting"
    /\ \A k \in DOMAIN replies : replies[k].done
    /\ LET retrieved_webpages ==
               Concat([k \in DOMAIN replies |->
                   [j \in DOMAIN replies[k].pages |->
                       PrecisionRankingWebpage(top_websites, replies[k].pages[j])]])
           sorted == SortByIndex(retrieved_webpages)
       IN out' =
            IF \E k \in DOMAIN replies : replies[k].panic
            THEN [status |-> "panic", pages |-> <<>>]
            ELSE IF debug_assertions /\ Len(retrieved_webpages) # Len(top_websites)
            THEN [status |-> "panic", pages |-> <<>>]
            ELSE [status |-> "returned",
                  pages |-> [k \in DOMAIN sorted |-> sorted[k][2]]]
    /\ spc' = "done"
    /\ UNCHANGED <<top_websites, debug_assertions, futures, replies, sent, initial,
                   nonSearch>>

\* what client.send(Search {query}, AllShardsSelector, RandomReplicaSelector)
\* can give: an error, or for every shard no entry, an entry without a
\* response, or an entry with the response of one replica, which holds a
\* result or none; the entries in any order
SearchSends ==
    {[ok |-> FALSE, entries |-> <<>>]} \cup
    UNION {{[ok |-> TRUE,
             entries |-> [k \in DOMAIN order |->
                 [shard |-> order[k],
                  replies |-> IF how[order[k]] = "noreply" THEN <<>>
                              ELSE <<[some |-> how[order[k]] = "some",
                                      val |-> [from |-> order[k]]]>>]]] :
              order \in SetToSeqs({s \in SearchShards : how[s] # "missing"})} :
           how \in [SearchShards -> {"missing", "noreply", "none", "some"}]}

\* a test that takes every entry that holds a reply
HasReply(entry) == Len(entry.replies) > 0

\* if let Some((_, Some(res))) = res.pop()
HasResult(entry) == Len(entry.replies) > 0 /\ Last(entry.replies).some

\* the loop of search_initial over the entries send gave
InitialResults(entries) ==
    LET kept == KeepAt(entries, {k \in DOMAIN entries : HasResult(entries[k])})
    IN [k \in DOMAIN kept |->
           [local_result |-> Last(kept[k].replies).val, shard |-> kept[k].shard]]

\* DistributedSearcher::search_initial
SearchInitial ==
    /\ spc = "start"
    /\ \E res \in SearchSends :
          /\ sent' = res
          /\ initial' = IF res.ok THEN InitialResults(res.entries) ELSE <<>>
    /\ spc' = "initial_done"
    /\ UNCHANGED <<top_websites, debug_assertions, futures, replies, out, nonSearch>>

\* ------------------------------------------------------------------
\* The generic paths of the distributed searcher
\* ------------------------------------------------------------------

\* the shards of the connection
NumGenShards == 2

GenShards == 1..NumGenShards

\* how many queries a batch holds at most
MaxQueries == 2

GenericFns ==
    {"search_initial_generic", "retrieve_generic",
     "batch_search_initial_generic", "batch_retrieve_generic"}

\* what one shard gives for a request of n messages: the request fails, or
\* no replica holds a response, or one replica answers with one response
\* per message in input order, each of which decodes to Ok or to an error
ShardAnswers(n) ==
    {[kind |-> "fail", res |-> <<>>], [kind |-> "noreply", res |-> <<>>]} \cup
    {[kind |-> "reply", res |-> r] : r \in [1..n -> BOOLEAN]}

\* a replica that answers a batch of n messages with n - 1 responses
ShortAnswers(n) == {[kind |-> "reply", res |-> r] : r \in [1..(n - 1) -> BOOLEAN]}

\* the documents a coordinator fruit can hold: one of every shard
FruitDocs == {[shard |-> s] : s \in GenShards}

\* Query::filter_fruit_shards(shard_id, fruit): the documents of the fruit
\* that belong to the shard
FilterFruitShards(shard_id, fruit) == {d \in fruit : d.shard = shard_id}

\* requests that carry the whole coordinator fruit to every shard
RetrieveRequestsUnfiltered(shard, fruits) ==
    [i \in DOMAIN fruits |-> [query |-> i, fruit |-> fruits[i]]]

\* queries.iter().map(|(query, fruit)| Q::RetrieveReq::new(query.clone(),
\* query.filter_fruit_shards(*shard.id(), fruit.clone()))): the retrieve
\* requests for one shard, in the order of the queries
RetrieveRequests(shard, fruits) ==
    [i \in DOMAIN fruits |-> [query |-> i, fruit |-> FilterFruitShards(shard, fruits[i])]]

\* for shard in conn.shards() { results.push(..send(req)..) }: one future
\* per shard of the connection, each with the requests for its shard
RetrievePushes(fruits) ==
    [k \in 1..NumGenShards |-> [shard |-> k, requests |-> RetrieveRequests(k, fruits)]]

\* the response of shard s to message i once decoded
Decoded(s, i) == [shard |-> s, query |-> i]

\* query.coordinator_collector().merge_fruits(fruits) of query i
CoordinatorMerge(i, fruits, merge_ok) ==
    [ok |-> merge_ok, query |-> i, of |-> IF merge_ok THEN fruits ELSE <<>>]

\* the entries of the answer of send / batch_send to all shards: a shard
\* whose request failed has no entry
Entries(order, how) == KeepAt(order, {k \in DOMAIN order : how[order[k]].kind # "fail"})

\* a loop that pushes every response onto the fruits of the first query
OkAtFirst(shards, how, i) ==
    IF i = 1
    THEN Concat([k \in DOMAIN shards |->
             IF how[shards[k]].kind = "reply"
             THEN LET r == how[shards[k]].res
                      ok == KeepAt([j \in DOMAIN r |-> j], {j \in DOMAIN r : r[j]})
                  IN [j \in DOMAIN ok |-> Decoded(shards[k], ok[j])]
             ELSE <<>>])
    ELSE <<>>

\* the responses of position i that decode to Ok, over the given shards
OkAt(shards, how, i) ==
    LET kept == KeepAt(shards, {k \in DOMAIN shards :
                   /\ how[shards[k]].kind = "reply"
                   /\ how[shards[k]].res[i]})
    IN [k \in DOMAIN kept |-> Decoded(kept[k], i)]

Returned(status, value) == [status |-> status, value |-> value]

\* DistributedSearcher::search_initial_generic
SearchInitialGeneric(send_ok, order, how, merge_ok) ==
    IF ~send_ok THEN Returned("err", <<>>)
    ELSE LET fruits == OkAt(Entries(order, how), how, 1)
             merged == CoordinatorMerge(1, fruits, merge_ok[1])
         IN IF merged.ok THEN Returned("ok", <<merged>>) ELSE Returned("err", <<>>)

\* DistributedSearcher::retrieve_generic: a shard whose send gave Err is
\* not pushed, a response that decodes to an error is filtered out
RetrieveGeneric(order, how) == Returned("ok", OkAt(order, how, 1))

\* DistributedSearcher::batch_search_initial_generic
BatchSearchInitialGeneric(n, debug, send_ok, order, how, merge_ok) ==
    IF ~send_ok THEN Returned("err", <<>>)
    ELSE LET entries == Entries(order, how)
             fruits == [i \in 1..n |-> OkAt(entries, how, i)]
             merged == [i \in 1..n |-> CoordinatorMerge(i, fruits[i], merge_ok[i])]
         IN IF debug /\ \E k \in DOMAIN entries : how[entries[k]].kind # "reply"
            THEN Returned("panic", <<>>)
            ELSE IF \E i \in 1..n : ~merged[i].ok THEN Returned("err", <<>>)
            ELSE Returned("ok", merged)

RECURSIVE BatchRetrieveLoop(_, _, _, _)
\* while let Some(shard_res) = results.next().await { .. } of
\* batch_retrieve_generic, over the shards in the order their futures
\* resolve: shard_res? returns the error of a failed batch_send,
\* assert_eq!(shard_res.len(), queries.len()) panics on a reply of another
\* length, map_err(..)? returns the first response that decodes to an
\* error, and res[i].push takes the i-th output
BatchRetrieveLoop(n, order, how, res) ==
    IF order = <<>> THEN Returned("ok", res)
    ELSE LET s == Head(order)
         IN CASE how[s].kind = "fail" -> Returned("err", <<>>)
              [] how[s].kind = "noreply" -> BatchRetrieveLoop(n, Tail(order), how, res)
              [] OTHER ->
                    IF Len(how[s].res) # n THEN Returned("panic", <<>>)
                    ELSE IF \E i \in 1..n : ~how[s].res[i] THEN Returned("err", <<>>)
                    ELSE BatchRetrieveLoop(n, Tail(order), how,
                             [i \in 1..n |-> Append(res[i], Decoded(s, i))])

\* DistributedSearcher::batch_retrieve_generic
BatchRetrieveGeneric(n, order, how) ==
    BatchRetrieveLoop(n, order, how, [i \in 1..n |-> <<>>])

NoAnswers == [send_ok |-> FALSE, order |-> <<>>, how |-> <<>>, merge_ok |-> <<>>,
              pushes |-> <<>>]

\* no generic call is running
NoGeneric ==
    /\ gcall = [fn |-> "none", n |-> 0, debug |-> FALSE, fruits |-> <<>>]
    /\ gpc = "off"
    /\ gsent = NoAnswers
    /\ gret = Returned("none", <<>>)

\* a generic call of either build: one query, or a batch of queries, and
\* for the retrieve phase the coordinator fruit of each query
GenInit ==
    /\ \E fn \in GenericFns : \E n \in 1..MaxQueries : \E debug \in BOOLEAN :
       \E fruits \in [1..n -> SUBSET FruitDocs] :
          /\ fn \in {"search_initial_generic", "retrieve_generic"} => n = 1
          /\ fn \in {"search_initial_generic", "batch_search_initial_generic"} =>
                \A i \in 1..n : fruits[i] = {}
          /\ gcall = [fn |-> fn, n |-> n, debug |-> debug, fruits |-> fruits]
    /\ gpc = "start"
    /\ gsent = NoAnswers
    /\ gret = Returned("none", <<>>)

\* the shards answer: whether the send to all shards came back, the order
\* in which the shards are met, what each gave, which merges succeed
GenAnswer(send_ok, order, how, merge_ok) ==
    gsent' = [send_ok |-> send_ok, order |-> order, how |-> how, merge_ok |-> merge_ok,
              pushes |-> IF gcall.fn \in {"retrieve_generic", "batch_retrieve_generic"}
                         THEN RetrievePushes(gcall.fruits)
                         ELSE <<>>]

CallSearchInitialGeneric ==
    /\ gpc = "start"
    /\ gcall.fn = "search_initial_generic"
    /\ \E send_ok \in BOOLEAN : \E order \in SetToSeqs(GenShards) :
       \E how \in [GenShards -> ShardAnswers(gcall.n)] :
       \E merge_ok \in [1..gcall.n -> BOOLEAN] :
          /\ GenAnswer(send_ok, order, how, merge_ok)
          /\ gret' = SearchInitialGeneric(send_ok, order, how, merge_ok)
    /\ gpc' = "done"
    /\ UNCHANGED <<gcall, nonGen>>

\* the sends of the retrieve paths go to each shard on its own: there is
\* no send to all shards that could fail, and nothing is merged
CallRetrieveGeneric ==
    /\ gpc = "start"
    /\ gcall.fn = "retrieve_generic"
    /\ \E order \in SetToSeqs(GenShards) :
       \E how \in [GenShards -> ShardAnswers(gcall.n)] :
          /\ GenAnswer(TRUE, order, how, [i \in 1..gcall.n |-> TRUE])
          /\ gret' = RetrieveGeneric(order, how)
    /\ gpc' = "done"
    /\ UNCHANGED <<gcall, nonGen>>

CallBatchSearchInitialGeneric ==
    /\ gpc = "start"
    /\ gcall.fn = "batch_search_initial_generic"
    /\ \E send_ok \in BOOLEAN : \E order \in SetToSeqs(GenShards) :
       \E how \in [GenShards -> ShardAnswers(gcall.n)] :
       \E merge_ok \in [1..gcall.n -> BOOLEAN] :
          /\ GenAnswer(send_ok, order, how, merge_ok)
          /\ gret' = BatchSearchInitialGeneric(gcall.n, gcall.debug, send_ok, order, how,
                                               merge_ok)
    /\ gpc' = "done"
    /\ UNCHANGED <<gcall, nonGen>>

CallBatchRetrieveGeneric ==
    /\ gpc = "start"
    /\ gcall.fn = "batch_retrieve_generic"
    /\ \E order \in SetToSeqs(GenShards) :
       \E how \in [GenShards -> ShardAnswers(gcall.n) \cup ShortAnswers(gcall.n)] :
          /\ GenAnswer(TRUE, order, how, [i \in 1..gcall.n |-> TRUE])
          /\ gret' = BatchRetrieveGeneric(gcall.n, order, how)
    /\ gpc' = "done"
    /\ UNCHANGED <<gcall, nonGen>>

\* ------------------------------------------------------------------
\* The clients built from the members of the cluster
\* ------------------------------------------------------------------

\* how many members join the cluster at most
MaxMembers == 3

NumRouteShards == 2

RouteShards == 1..NumRouteShards

LiveIndexStates == {"InSetup", "Ready"}

\* Service::Searcher {host, shard}, Service::LiveIndex {host, search_host,
\* shard, state}, and the services no search client looks at; the
\* addresses of member i are its own
Services(i) ==
    {[service |-> "Searcher", shard |-> s, state |-> "Ready",
      host |-> <<i, "host">>, search_host |-> <<i, "host">>] : s \in RouteShards} \cup
    {[service |-> "LiveIndex", shard |-> s, state |-> st,
      host |-> <<i, "host">>, search_host |-> <<i, "search_host">>] :
        s \in RouteShards, st \in LiveIndexStates} \cup
    {[service |-> "Dht", shard |-> s, state |-> "Ready",
      host |-> <<i, "host">>, search_host |-> <<i, "host">>] : s \in RouteShards}

\* a test that takes a live index in any state
AnyState(state) == TRUE

\* state == LiveIndexState::Ready
IsReady(state) == state = "Ready"

\* the address the SearchService client pushes for a member, if any
SearchReplica(m) ==
    IF m.service = "Searcher" THEN <<m.host>>
    ELSE IF m.service = "LiveIndex" /\ IsReady(m.state) THEN <<m.search_host>>
    ELSE <<>>

\* the address the LiveIndexService client pushes for a member, if any
LiveReplica(m) ==
    IF m.service = "LiveIndex" /\ IsReady(m.state) THEN <<m.host>>
    ELSE <<>>

\* shards.entry(shard).or_insert_with(Vec::new).push(..) for what each
\* member gives, and one Shard per entry: the map from the shards that got
\* an address to their replicas, in the order of the members
ShardsOf(pushes) ==
    LET of(s) == Concat([i \in DOMAIN pushes |->
                    IF pushes[i].shard = s THEN pushes[i].replica ELSE <<>>])
    IN [s \in {x \in RouteShards : of(x) # <<>>} |-> of(s)]

\* <SearchService as ReusableClientManager>::new_client
NewSearchClient(ms) ==
    ShardsOf([i \in DOMAIN ms |-> [shard |-> ms[i].shard, replica |-> SearchReplica(ms[i])]])

\* <LiveIndexService as ReusableClientManager>::new_client
NewLiveIndexClient(ms) ==
    ShardsOf([i \in DOMAIN ms |-> [shard |-> ms[i].shard, replica |-> LiveReplica(ms[i])]])

NoClient == [built |-> FALSE, from |-> <<>>, shards |-> <<>>]

\* an empty cluster, no client built
NoRouting ==
    /\ members = <<>>
    /\ search_client = NoClient
    /\ live_client = NoClient

\* a service joins the cluster
MemberJoins ==
    /\ Len(members) < MaxMembers
    /\ \E m \in Services(Len(members) + 1) : members' = Append(members, m)
    /\ UNCHANGED <<search_client, live_client, nonRoute>>

\* a live index advertises another state
MemberSetsState ==
    /\ \E i \in DOMAIN members : \E st \in LiveIndexStates :
          /\ members[i].service = "LiveIndex"
          /\ members[i].state # st
          /\ members' = [members EXCEPT ![i].state = st]
    /\ UNCHANGED <<search_client, live_client, nonRoute>>

\* the client of the SearchService is built anew
RefreshSearchClient ==
    /\ search_client' = [built |-> TRUE, from |-> members,
                          shards |-> NewSearchClient(members)]
    /\ search_client' # search_client
    /\ UNCHANGED <<members, live_client, nonRoute>>

\* the client of the LiveIndexService is built anew
RefreshLiveIndexClient ==
    /\ live_client' = [built |-> TRUE, from |-> members,
                        shards |-> NewLiveIndexClient(members)]
    /\ live_client' # live_client
    /\ UNCHANGED <<members, search_client, nonRoute>>

\* ------------------------------------------------------------------
\* Harmonic centrality over the AMPC framework
\* ------------------------------------------------------------------

\* the hosts edges are drawn from
NumNodes == 3

\* how many edges the graph holds at most
MaxEdges == 3

\* how many times a job fails and is dispatched again
MaxRetries == 1

\* no distance exceeds the number of nodes: the round after the last
\* change is at most this one
MaxRounds == NumNodes + 1

RECURSIVE Factorial(_)
Factorial(n) == IF n = 0 THEN 1 ELSE n * Factorial(n - 1)

\* centrality is kept as a multiple of 1 / Scale, which holds 1 / d of
\* every round d exactly
Scale == Factorial(MaxRounds)

\* Edge::new_test(from, to) between different hosts, each edge once
EdgeLists(n) ==
    {es \in [1..n -> {e \in (1..NumNodes) \X (1..NumNodes) : e[1] # e[2]}] :
        \A i \in 1..n : \A j \in 1..n : i # j => es[i] # es[j]}

\* combined.host_nodes()
HostNodes(es) == {es[i][1] : i \in DOMAIN es} \cup {es[i][2] : i \in DOMAIN es}

\* for (i, (from, to)) in edges.into_iter().enumerate(): graph a takes the
\* edges with i % 2 == 0 (counted from 0), graph b the others
GraphOf(es, shard) ==
    KeepAt(es, {i \in DOMAIN es : IF shard = 1 THEN (i - 1) % 2 = 0 ELSE (i - 1) % 2 # 0})

\* vec![a, b]: RemoteCentralityWorker::new(1.into(), ..) and (2.into(), ..)
RemoteWorkers == <<[shard |-> 1], [shard |-> 2]>>

Workers == DOMAIN RemoteWorkers

\* vec![CentralityJob { shard: 1.into() }, CentralityJob { shard: 2.into() }]
CentralityJobs == {[shard |-> 1], [shard |-> 2]}

\* a scheduler that hands any job to any worker
AlwaysSchedulable(job, worker) == TRUE

\* <CentralityJob as Job>::is_schedulable
IsSchedulable(job, worker) == job.shard = worker.shard

\* struct Meta
Meta(round_had_changes, upper_bound_num_nodes) ==
    [round_had_changes |-> round_had_changes,
     upper_bound_num_nodes |-> upper_bound_num_nodes]

\* struct CentralityTables, before the setup
NoTables ==
    [counters |-> <<>>, meta |-> Meta(FALSE, 0), centrality |-> <<>>,
     changed_nodes |-> <<>>]

\* CentralitySetup: every counter holds its own node, every centrality is
\* zero, every shard's changed_nodes holds every node, and meta says that
\* the round before the first had changes
SetupTables(es) ==
    [counters |-> [n \in HostNodes(es) |-> {n}],
     meta |-> Meta(TRUE, Cardinality(HostNodes(es))),
     centrality |-> [n \in HostNodes(es) |-> 0],
     changed_nodes |-> [w \in Workers |-> HostNodes(es)]]

\* the estimate of a counter
Size(counter) == Cardinality(counter)

\* a growth that is taken with the wrong sign
Shrunk(old, new) == Size(old) - Size(new)

\* by how much the counter grew
Grown(old, new) == Size(new) - Size(old)

\* a mapper that merges the counter of the source as it is now, not as the
\* round before left it
MapEdgeOfNow(tables, before, job, d, e) ==
    LET from == e[1]
        to == e[2]
        old == tables.counters[to]
        new == old \cup tables.counters[from]
        delta == Size(new) - Size(old)
    IN IF from \notin UNION {before.changed_nodes[w] : w \in Workers} \/ new = old
       THEN tables
       ELSE [tables EXCEPT
                !.counters[to] = new,
                !.centrality[to] = @ + (delta * Scale) \div d,
                !.changed_nodes[job.shard] = @ \cup {to},
                !.meta.round_had_changes = TRUE]

\* CentralityMapper::map on one edge of the worker's graph in round d: when
\* the source changed in the round before, its counter of that round is
\* merged into the counter of the target; a counter that grew by delta
\* adds delta / d to the centrality of the target, marks the target in
\* changed_nodes of the job's shard, and sets round_had_changes
MapEdge(tables, before, job, d, e) ==
    LET from == e[1]
        to == e[2]
        old == tables.counters[to]
        new == old \cup before.counters[from]
        delta == Grown(old, new)
    IN IF from \notin UNION {before.changed_nodes[w] : w \in Workers} \/ new = old
       THEN tables
       ELSE [tables EXCEPT
                !.counters[to] = new,
                !.centrality[to] = @ + (delta * Scale) \div d,
                !.changed_nodes[job.shard] = @ \cup {to},
                !.meta.round_had_changes = TRUE]

\* a coordinator that goes on whatever the flag says
NeverStop(m) == FALSE

\* the coordinator is done once a round ends with round_had_changes false
ShouldStop(m) == ~m.round_had_changes

NoJob == [shard |-> 0]

IdleWorker == [job |-> NoJob, todo |-> <<>>]

NoCoordinator == [pc |-> "off", round |-> 0, pending |-> {}, done |-> {}, flags |-> <<>>,
                  retries |-> 0]

\* no centrality computation is running
NoAmpc ==
    /\ edges = <<>>
    /\ dht = NoTables
    /\ prev = NoTables
    /\ coord = NoCoordinator
    /\ workers = <<>>

\* the graphs are committed and both workers run
AmpcInit ==
    /\ \E n \in 1..MaxEdges : edges \in EdgeLists(n)
    /\ dht = NoTables
    /\ prev = NoTables
    /\ coord = [NoCoordinator EXCEPT !.pc = "setup"]
    /\ workers = [w \in Workers |-> IdleWorker]

\* the coordinator seeds the tables
Setup ==
    /\ coord.pc = "setup"
    /\ dht' = SetupTables(edges)
    /\ coord' = [coord EXCEPT !.pc = "start"]
    /\ UNCHANGED <<edges, prev, workers, nonAmpc>>

\* a round begins: the tables of the round before are kept for the
\* mappers to read, the flag and the changed nodes start afresh, and there
\* is one job per shard to dispatch
StartRound ==
    /\ coord.pc = "start"
    /\ coord.round < MaxRounds
    /\ prev' = dht
    /\ dht' = [dht EXCEPT !.meta.round_had_changes = FALSE,
                         !.changed_nodes = [w \in Workers |-> {}]]
    /\ coord' = [coord EXCEPT !.pc = "round", !.round = @ + 1,
                              !.pending = CentralityJobs, !.done = {}]
    /\ UNCHANGED <<edges, workers, nonAmpc>>

\* the coordinator hands a job to a free worker that can take it
Dispatch ==
    /\ coord.pc = "round"
    /\ \E job \in coord.pending : \E w \in Workers :
          /\ workers[w].job = NoJob
          /\ IsSchedulable(job, RemoteWorkers[w])
          /\ workers' = [workers EXCEPT ![w] =
                            [job |-> job, todo |-> GraphOf(edges, RemoteWorkers[w].shard)]]
          /\ coord' = [coord EXCEPT !.pending = @ \ {job}]
    /\ UNCHANGED <<edges, dht, prev, nonAmpc>>

\* the mapper of a worker handles the next edge of its graph
MapStep ==
    /\ \E w \in Workers :
          /\ workers[w].job # NoJob
          /\ workers[w].todo # <<>>
          /\ dht' = MapEdge(dht, prev, workers[w].job, coord.round, Head(workers[w].todo))
          /\ workers' = [workers EXCEPT ![w].todo = Tail(@)]
    /\ UNCHANGED <<edges, prev, coord, nonAmpc>>

\* the mapper of a worker has handled its graph
JobDone ==
    /\ \E w \in Workers :
          /\ workers[w].job # NoJob
          /\ workers[w].todo = <<>>
          /\ coord' = [coord EXCEPT !.done = @ \cup {workers[w].job}]
          /\ workers' = [workers EXCEPT ![w] = IdleWorker]
    /\ UNCHANGED <<edges, dht, prev, nonAmpc>>

\* a job fails part of the way and the coordinator dispatches it again
JobFails ==
    /\ coord.retries < MaxRetries
    /\ \E w \in Workers :
          /\ workers[w].job # NoJob
          /\ coord' = [coord EXCEPT !.pending = @ \cup {workers[w].job},
                                    !.retries = @ + 1]
          /\ workers' = [workers EXCEPT ![w] = IdleWorker]
    /\ UNCHANGED <<edges, dht, prev, nonAmpc>>

\* a dispatch of the round is delivered once more: the worker runs a job
\* again that is already done
Redispatch ==
    /\ coord.pc \in {"round", "finished"}
    /\ coord.retries < MaxRetries
    /\ \E job \in coord.done : \E w \in Workers :
          /\ workers[w].job = NoJob
          /\ IsSchedulable(job, RemoteWorkers[w])
          /\ workers' = [workers EXCEPT ![w] =
                            [job |-> job, todo |-> GraphOf(edges, RemoteWorkers[w].shard)]]
          /\ coord' = [coord EXCEPT !.retries = @ + 1]
    /\ UNCHANGED <<edges, dht, prev, nonAmpc>>

\* every job of the round is done and no worker is busy: the coordinator
\* reads meta and either finishes or goes on to the next round
EndRound ==
    /\ coord.pc = "round"
    /\ coord.done = CentralityJobs
    /\ \A w \in Workers : workers[w].job = NoJob
    /\ coord' = [coord EXCEPT
                    !.pc = IF ShouldStop(dht.meta) THEN "finished" ELSE "start",
                    !.flags = Append(@, dht.meta.round_had_changes)]
    /\ UNCHANGED <<edges, dht, prev, workers, nonAmpc>>

\* ------------------------------------------------------------------
\* The robots.txt cache of the crawler
\* ------------------------------------------------------------------

NumSites == 2

Sites == 1..NumSites

\* how far the clock runs
MaxClock == 3

\* the longest cache_expiration
MaxExpiration == 2

\* how many calls of get() run at a time
NumGetters == 2

Getters == 1..NumGetters

\* Duration::from_secs(60) of maybe_prune, in ticks of the clock
PRUNE_INTERVAL == 2

\* enum Lookup
Lookups == {"Found", "Unavailable", "Unreachable"}

\* no entry for the site
Absent == [robots |-> "None", last_check |-> 0]

\* CheckedRobotsTxt::new(robots): last_check is Instant::now()
CheckedRobotsTxt(robots, t) == [robots |-> robots, last_check |-> t]

\* an expiry that treats every lookup result alike
IsExpiredByAgeOnly(checked, expiration, t) == t - checked.last_check >= expiration

\* CheckedRobotsTxt::is_expired, with last_check.elapsed() taken at t
IsExpired(checked, expiration, t) ==
    CASE checked.robots \in {"Found", "Unavailable"} -> t - checked.last_check >= expiration
      [] OTHER -> FALSE

\* a fetch that asks over https only
FetchHttpsOnly(https, http) == https

\* the requests of fetch_robots_txt_without_retry, in order: the arm of
\* Lookup::Found makes no second call of fetch_robots_txt_from_url
FetchRequests(https) ==
    IF https = "Found" THEN <<"https">> ELSE <<"https", "http">>

\* InnerRobotsTxtManager::is_allowed on the entry get() returned; rule is
\* what a robots.txt that was found says about the URL
IsAllowed(robots, rule) ==
    CASE robots = "Found" -> rule
      [] robots = "Unavailable" -> TRUE
      [] OTHER -> FALSE

\* InnerRobotsTxtManager::fetch_robots_txt_without_retry: https first, then
\* http when https gave no robots.txt
FetchWithoutRetry(https, http) ==
    CASE https = "Unreachable" -> http
      [] https = "Unavailable" -> (IF http = "Found" THEN "Found" ELSE "Unavailable")
      [] OTHER -> "Found"

\* InnerRobotsTxtManager::fetch_robots_txt with RETRY_ROBOTSTXT_UNREACHABLE
\* = false
FetchRobotsTxt(https, http, t) == CheckedRobotsTxt(FetchWithoutRetry(https, http), t)

\* whether maybe_prune goes past its early return
PruneIsDue(t) == t - last_prune >= PRUNE_INTERVAL

\* self.cache.retain(|_, v| !v.is_expired(&self.cache_expiration))
Retain(c, expiration, t) ==
    [s \in Sites |-> IF c[s] # Absent /\ IsExpired(c[s], expiration, t) THEN Absent ELSE c[s]]

\* .map(|v| v.is_expired(&self.cache_expiration)).unwrap_or(true)
CacheShouldUpdate(c, site, expiration, t) ==
    IF c[site] = Absent THEN TRUE ELSE IsExpired(c[site], expiration, t)

IdleGetter == [pc |-> "idle", site |-> 0]

NoGet == [op |-> "none", site |-> 0, at |-> 0, pruned |-> FALSE, before |-> <<>>,
          after |-> <<>>, update |-> FALSE, https |-> "None", http |-> "None",
          requests |-> <<>>, allowed |-> <<>>]

\* no crawler is running
NoRobots ==
    /\ rclock = 0
    /\ cache = <<>>
    /\ last_prune = 0
    /\ cache_expiration = 0
    /\ getters = <<>>
    /\ robs = NoGet

\* InnerRobotsTxtManager::new: an empty cache
RobotsInit ==
    /\ rclock = 0
    /\ cache = [s \in Sites |-> Absent]
    /\ last_prune = 0
    /\ cache_expiration \in 0..MaxExpiration
    /\ getters = [g \in Getters |-> IdleGetter]
    /\ robs = NoGet

\* time passes
Tick ==
    /\ rclock < MaxClock
    /\ rclock' = rclock + 1
    /\ UNCHANGED <<cache, last_prune, cache_expiration, getters, robs, nonRobots>>

\* get() up to the await of the fetch: maybe_prune, then the test of the
\* entry of the site; an entry that need not be updated is returned
GetStart ==
    /\ \E g \in Getters : \E site \in Sites :
          /\ getters[g].pc = "idle"
          /\ LET pruned == PruneIsDue(rclock)
                 kept == IF pruned THEN Retain(cache, cache_expiration, rclock) ELSE cache
                 update == CacheShouldUpdate(kept, site, cache_expiration, rclock)
             IN /\ cache' = kept
                /\ last_prune' = IF pruned THEN rclock ELSE last_prune
                /\ getters' = [getters EXCEPT ![g] =
                       IF update THEN [pc |-> "fetching", site |-> site] ELSE IdleGetter]
                /\ robs' = [NoGet EXCEPT !.op = "get", !.site = site, !.at = rclock,
                                         !.pruned = pruned, !.before = cache,
                                         !.after = kept, !.update = update]
    /\ UNCHANGED <<rclock, cache_expiration, nonRobots>>

\* the fetch of a get() comes back: https and http are what the two
\* addresses of the site answer when asked; the entry is inserted and
\* returned, and is_allowed answers from it
GetFetched ==
    /\ \E g \in Getters : \E https \in Lookups : \E http \in Lookups :
          /\ getters[g].pc = "fetching"
          /\ cache' = [cache EXCEPT ![getters[g].site] = FetchRobotsTxt(https, http, rclock)]
          /\ getters' = [getters EXCEPT ![g] = IdleGetter]
          /\ robs' = [NoGet EXCEPT !.op = "fetch", !.site = getters[g].site, !.at = rclock,
                                   !.before = cache, !.after = cache', !.update = TRUE,
                                   !.https = https, !.http = http,
                                   !.requests = FetchRequests(https),
                                   !.allowed = [rule \in BOOLEAN |->
                                       IsAllowed(cache'[getters[g].site].robots, rule)]]
    /\ UNCHANGED <<rclock, last_prune, cache_expiration, nonRobots>>

\* ------------------------------------------------------------------
\* The error model of the spell checker
\* ------------------------------------------------------------------

\* the letters the strings are made of
NumChars == 2

Chars == 1..NumChars

\* the longest string
MaxStrLen == 3

\* the strings of n letters
Strings(n) == [1..n -> Chars]

\* a cost that takes every two letters for equal
CostOfNothing(a, b, i, j) == 0

\* let cost = if a.chars().nth(i - 1) == b.chars().nth(j - 1) { 0 } else { 1 }
Cost(a, b, i, j) == IF a[i] = b[j] THEN 0 ELSE 1

RECURSIVE Dp(_, _, _, _)
\* dp[i][j] once the two loops have filled the table
Dp(a, b, i, j) ==
    IF i = 0 THEN j
    ELSE IF j = 0 THEN i
    ELSE Min({Min({Dp(a, b, i - 1, j) + 1, Dp(a, b, i, j - 1) + 1}),
              Dp(a, b, i - 1, j - 1) + Cost(a, b, i, j)})

\* enum ErrorType
Insertion(c) == [type |-> "Insertion", c1 |-> c, c2 |-> c]

Deletion(c) == [type |-> "Deletion", c1 |-> c, c2 |-> c]

Substitution(c, d) == [type |-> "Substitution", c1 |-> c, c2 |-> d]

RECURSIVE Backtrace(_, _, _, _)
\* the three while loops that walk the table back from (i, j), with the
\* errors in the order they are pushed
Backtrace(a, b, i, j) ==
    IF i > 0 /\ j > 0
    THEN LET cost == Cost(a, b, i, j)
         IN IF Dp(a, b, i, j) = Dp(a, b, i - 1, j - 1) + cost
            THEN (IF cost = 1 THEN <<Substitution(a[i], b[j])>> ELSE <<>>)
                 \o Backtrace(a, b, i - 1, j - 1)
            ELSE IF Dp(a, b, i, j) = Dp(a, b, i - 1, j) + 1
            THEN <<Deletion(a[i])>> \o Backtrace(a, b, i - 1, j)
            ELSE <<Insertion(b[j])>> \o Backtrace(a, b, i, j - 1)
    ELSE IF i > 0 THEN <<Deletion(a[i])>> \o Backtrace(a, b, i - 1, j)
    ELSE IF j > 0 THEN <<Insertion(b[j])>> \o Backtrace(a, b, i, j - 1)
    ELSE <<>>

\* Option<ErrorSequence>
NoErrors == [some |-> FALSE, errors |-> <<>>]

SomeErrors(errors) == [some |-> TRUE, errors |-> errors]

\* web_spell::error_model::possible_errors
PossibleErrors(a, b) ==
    IF a = b THEN NoErrors
    ELSE LET errors == Backtrace(a, b, Len(a), Len(b))
         IN IF errors # <<>> THEN SomeErrors(errors) ELSE NoErrors

\* possible_errors has not been called: no letter is 0
NotCalled == [some |-> FALSE, errors |-> <<Deletion(0)>>]

\* no call of possible_errors
NoSpell ==
    /\ str_a = <<>>
    /\ str_b = <<>>
    /\ errs = NotCalled

\* two strings to compare; NoSpell is the pair of empty strings
SpellInit ==
    /\ \E n \in 0..MaxStrLen : str_a \in Strings(n)
    /\ \E n \in 0..MaxStrLen : str_b \in Strings(n)
    /\ errs = NotCalled

\* possible_errors(a, b)
CallPossibleErrors ==
    /\ errs = NotCalled
    /\ errs' = PossibleErrors(str_a, str_b)
    /\ UNCHANGED <<str_a, str_b, nonSpell>>

\* ------------------------------------------------------------------
\* The sort order of a columnar writer
\* ------------------------------------------------------------------

\* num_docs at most
MaxRows == 3

\* how many values a row holds at most
MaxValuesPerRow == 2

\* from here on an f32 holds only every second integer
TwoTo24 == 16777216

\* the values recorded: a negative one, zero, and two that the same f32
\* stands for
RecordedValues == {-1, 0, TwoTo24, TwoTo24 + 1}

\* the rows 0..n-1, each with the values recorded for it in order
RowValues == UNION {[1..k -> RecordedValues] : k \in 0..MaxValuesPerRow}

\* f64::coerce(numerical_value) as f32, for integers below 2^25: the
\* nearest f32, ties to the even mantissa
CoerceF32(v) ==
    LET m == IF v < 0 THEN 0 - v ELSE v
        q == m \div 2
        r == IF m <= TwoTo24 \/ m % 2 = 0 THEN m
             ELSE IF q % 2 = 0 THEN 2 * q ELSE 2 * (q + 1)
    IN IF v < 0 THEN 0 - r ELSE r

\* numerical_col_writer.operation_iterator(..): NewDoc(doc) and the values
\* of the doc, for every doc that has a value, in ascending order of doc
OperationIterator(col) ==
    Concat([k \in 1..Cardinality(DOMAIN col) |->
        IF col[k - 1] = <<>> THEN <<>>
        ELSE <<[op |-> "NewDoc", arg |-> k - 1]>>
             \o [x \in DOMAIN col[k - 1] |-> [op |-> "Value", arg |-> col[k - 1][x]]]])

\* (0.0, doc) for the docs from..to-1
Fill(from, to) == [k \in 1..(IF to > from THEN to - from ELSE 0) |-> <<0, from + k - 1>>]

RECURSIVE Scan(_)
\* the loop of sort_order over the operations: values,
\* start_doc_check_fill and current_doc_opt after the last of ops
Scan(ops) ==
    IF ops = <<>> THEN [values |-> <<>>, start_doc_check_fill |-> 0, current_doc_opt |-> -1]
    ELSE LET st == Scan(Front(ops))
             op == Last(ops)
         IN IF op.op = "NewDoc" THEN [st EXCEPT !.current_doc_opt = op.arg]
            ELSE IF st.current_doc_opt # -1
            THEN [values |-> st.values
                               \o Fill(st.start_doc_check_fill, st.current_doc_opt)
                               \o <<<<CoerceF32(op.arg), st.current_doc_opt>>>>,
                  start_doc_check_fill |-> st.current_doc_opt + 1,
                  current_doc_opt |-> -1]
            ELSE st

\* left_score.total_cmp(right_score), or the two swapped when reversed
ComesBefore(left, right, rev) == IF rev THEN right[1] < left[1] ELSE left[1] < right[1]

RECURSIVE StableSort(_, _)
\* values.sort_by(..): stable
StableSort(values, rev) ==
    IF values = <<>> THEN <<>>
    ELSE LET s == StableSort(Front(values), rev)
             d == Last(values)
             k == Cardinality({i \in DOMAIN s : ~ComesBefore(d, s[i], rev)})
         IN SubSeq(s, 1, k) \o <<d>> \o SubSeq(s, k + 1, Len(s))

\* ColumnarWriter::sort_order
SortOrder(col, present, num_docs, rev) ==
    IF ~present THEN <<>>
    ELSE LET scanned == Scan(OperationIterator(col)).values
             values == scanned \o Fill(Len(scanned), num_docs)
             ordered == StableSort(values, rev)
         IN [k \in DOMAIN ordered |-> ordered[k][2]]

\* sort_order has not been called: no doc has this id
NotSorted == <<-1>>

\* no columnar writer
NoColumn ==
    /\ column = <<>>
    /\ col_present = FALSE
    /\ reversed = FALSE
    /\ doc_order = NotSorted

\* a writer with num_docs rows: the column of the sort field is there once
\* a value was recorded for it
ColInit ==
    /\ \E n \in 1..MaxRows : column \in [0..(n - 1) -> RowValues]
    /\ col_present \in BOOLEAN
    /\ (\E d \in DOMAIN column : column[d] # <<>>) => col_present
    /\ reversed \in BOOLEAN
    /\ doc_order = NotSorted

\* sort_order(sort_field, num_docs, reversed)
CallSortOrder ==
    /\ doc_order = NotSorted
    /\ doc_order' = SortOrder(column, col_present, Cardinality(DOMAIN column), reversed)
    /\ UNCHANGED <<column, col_present, reversed, nonCol>>

\* ------------------------------------------------------------------
\* compact_segments_by_date and the lock of the index
\* ------------------------------------------------------------------

\* the searches that run next to the compaction
NumSearches == 2
Searches == 1..NumSearches
\* the task that calls compact_segments_by_date
Compactor == NumSearches + 1
\* how many dates have more than one segment
MaxGroups == 2

\* the lock start_compact_segments_by_date takes on self.index for
\* start_merge_segments_by_id: self.index.write().await
Phase1IndexLock == "write"

NoCompaction == [pc |-> "off", phase |-> 0, left |-> 0, ops |-> 0]

\* no compaction and no search is running
NoPhases ==
    /\ state_lock = Unlocked
    /\ index_lock = Unlocked
    /\ compaction = NoCompaction
    /\ searches = [s \in Searches |-> "off"]

PhaseInit ==
    /\ state_lock = Unlocked
    /\ index_lock = Unlocked
    /\ compaction = [pc |-> "idle", phase |-> 0, left |-> 0, ops |-> 0]
    /\ searches = [s \in Searches |-> "idle"]

\* LiveIndex::compact_segments_by_date is called
CompactCall ==
    /\ compaction.pc = "idle"
    /\ compaction' = [compaction EXCEPT !.pc = "state_read_wait"]
    /\ UNCHANGED <<state_lock, index_lock, searches, nonPhase>>

\* self.inner.read().await returns; prepare_segments_for_compaction finds
\* the dates to merge
Phase1Begins ==
    /\ compaction.pc = "state_read_wait"
    /\ CanLock(state_lock, "read")
    /\ state_lock' = Lock(state_lock, "read", Compactor)
    /\ \E groups \in 0..MaxGroups :
          compaction' = [pc |-> "phase1", phase |-> 1, left |-> groups, ops |-> 0]
    /\ UNCHANGED <<index_lock, searches, nonPhase>>

\* the loop of start_compact_segments_by_date reaches a date with more than
\* one segment and asks for the lock of the index
Phase1WantsIndex ==
    /\ compaction.pc = "phase1"
    /\ compaction.left > 0
    /\ compaction' = [compaction EXCEPT !.pc = "phase1_index_wait"]
    /\ UNCHANGED <<state_lock, index_lock, searches, nonPhase>>

\* self.index.write().await returns in phase 1
Phase1LocksIndex ==
    /\ compaction.pc = "phase1_index_wait"
    /\ CanLock(index_lock, Phase1IndexLock)
    /\ index_lock' = Lock(index_lock, Phase1IndexLock, Compactor)
    /\ compaction' = [compaction EXCEPT !.pc = "start_merge"]
    /\ UNCHANGED <<state_lock, searches, nonPhase>>

\* start_merge_segments_by_id(..).await returns under the guard, which is
\* dropped at the end of the statement; an Err leaves the method (`?`)
\* and drops the guard of self.inner.read() as well
StartMerge ==
    /\ compaction.pc = "start_merge"
    /\ index_lock' = Unlock(index_lock, Compactor)
    /\ \E ok \in BOOLEAN :
          IF ok
          THEN /\ compaction' = [compaction EXCEPT !.pc = "phase1", !.left = @ - 1,
                                                   !.ops = @ + 1]
               /\ UNCHANGED state_lock
          ELSE /\ compaction' = [pc |-> "done", phase |-> 0, left |-> 0, ops |-> 0]
               /\ state_lock' = Unlock(state_lock, Compactor)
    /\ UNCHANGED <<searches, nonPhase>>

\* start_compact_segments_by_date returns its operations and the guard of
\* self.inner.read() is dropped
Phase1Ends ==
    /\ compaction.pc = "phase1"
    /\ compaction.left = 0
    /\ state_lock' = Unlock(state_lock, Compactor)
    /\ compaction' = [compaction EXCEPT !.pc = "state_write_wait", !.phase = 0]
    /\ UNCHANGED <<index_lock, searches, nonPhase>>

\* self.inner.write().await returns
Phase2Begins ==
    /\ compaction.pc = "state_write_wait"
    /\ CanLock(state_lock, "write")
    /\ state_lock' = Lock(state_lock, "write", Compactor)
    /\ compaction' = [compaction EXCEPT !.pc = "phase2", !.phase = 2, !.left = compaction.ops]
    /\ UNCHANGED <<index_lock, searches, nonPhase>>

\* let mut index = self.index.write().await in the loop of
\* end_compact_segments_by_date, or in re_open after the loop
Phase2WantsIndex ==
    /\ compaction.pc = "phase2"
    /\ compaction' = [compaction EXCEPT !.pc = "phase2_index_wait"]
    /\ UNCHANGED <<state_lock, index_lock, searches, nonPhase>>

Phase2LocksIndex ==
    /\ compaction.pc = "phase2_index_wait"
    /\ CanLock(index_lock, "write")
    /\ index_lock' = Lock(index_lock, "write", Compactor)
    /\ compaction' = [compaction EXCEPT !.pc = IF compaction.left > 0 THEN "end_merge"
                                                ELSE "re_open"]
    /\ UNCHANGED <<state_lock, searches, nonPhase>>

\* op.end(&mut index.inverted_index), then the guard is dropped
EndMerge ==
    /\ compaction.pc = "end_merge"
    /\ index_lock' = Unlock(index_lock, Compactor)
    /\ compaction' = [compaction EXCEPT !.pc = "phase2", !.left = @ - 1]
    /\ UNCHANGED <<state_lock, searches, nonPhase>>

\* re_open returns, end_compact_segments_by_date returns and the guard of
\* self.inner.write() is dropped
Phase2Ends ==
    /\ compaction.pc = "re_open"
    /\ index_lock' = Unlock(index_lock, Compactor)
    /\ state_lock' = Unlock(state_lock, Compactor)
    /\ compaction' = [pc |-> "done", phase |-> 0, left |-> 0, ops |-> 0]
    /\ UNCHANGED <<searches, nonPhase>>

\* a search takes the index of the live index: LiveIndex::index(), which
\* clones the Arc under self.inner.read()
SearchCall ==
    \E s \in Searches :
        /\ searches[s] = "idle"
        /\ CanLock(state_lock, "read")
        /\ searches' = [searches EXCEPT ![s] = "index_read_wait"]
        /\ UNCHANGED <<state_lock, index_lock, compaction, nonPhase>>

\* index.read().await returns and the search runs
SearchLocksIndex ==
    \E s \in Searches :
        /\ searches[s] = "index_read_wait"
        /\ CanLock(index_lock, "read")
        /\ index_lock' = Lock(index_lock, "read", s)
        /\ searches' = [searches EXCEPT ![s] = "searching"]
        /\ UNCHANGED <<state_lock, compaction, nonPhase>>

\* the search is over and drops its guard
SearchEnds ==
    \E s \in Searches :
        /\ searches[s] = "searching"
        /\ index_lock' = Unlock(index_lock, s)
        /\ searches' = [searches EXCEPT ![s] = "idle"]
        /\ UNCHANGED <<state_lock, compaction, nonPhase>>

\* no component that follows the searcher is running
NoLater ==
    /\ NoGeneric
    /\ NoRouting
    /\ NoAmpc
    /\ NoRobots
    /\ NoSpell
    /\ NoColumn
    /\ NoPhases

\* ------------------------------------------------------------------
\* Init: InnerIndex::new on an empty directory
\* ------------------------------------------------------------------

LiveInit ==
    /\ up = TRUE
    /\ wal = <<>>
    /\ has_inserts = FALSE
    /\ meta = <<>>
    /\ metaFile = <<>>
    /\ store = {}
    /\ nextId = 1
    /\ nextPage = 1
    /\ now = 0
    /\ compact = Idle
    /\ crashes = 0
    /\ last = NoObs
    /\ written = [n \in 1..MaxPages |-> None]

Init ==
    /\ LiveInit
    /\ NoCallers
    /\ NoCollection
    /\ NoSearch
    /\ NoLater

\* ------------------------------------------------------------------
\* insert
\* ------------------------------------------------------------------

\* the URLs of the pages the program still holds
KnownUrls == {p.url : p \in Range(wal) \cup StoreDocs(store)}

RECURSIVE InOrderOfUse(_, _)
\* URLs are opaque and only compared for equality: a URL the program does not
\* hold is named by the smallest number not in use
InOrderOfUse(us, known) ==
    IF Len(us) = 0 THEN TRUE
    ELSE /\ \/ Head(us) \in known
            \/ Urls \ known # {} /\ Head(us) = Min(Urls \ known)
         /\ InOrderOfUse(Tail(us), known \cup {Head(us)})

\* a batch_write that puts the slice in front of the log
WalBatchWriteInFront(w, pages) == pages \o w

\* write_ahead_log.batch_write(pages.iter()): the pages go to the end of the
\* log, in the order of the slice
WalBatchWrite(w, pages) == w \o pages

\* LiveIndex::insert / InnerIndex::insert
Insert ==
    /\ up
    /\ \E len \in InsertLens : \E us \in [1..len -> Urls] :
         /\ nextPage + len - 1 <= MaxPages
         /\ InOrderOfUse(us, KnownUrls)
         /\ LET pages == [i \in 1..len |-> [url |-> us[i], n |-> nextPage + i - 1]]
            IN /\ wal' = WalBatchWrite(wal, pages)
               /\ last' = [Obs("insert") EXCEPT !.pages = pages]
         /\ nextPage' = nextPage + len
    /\ has_inserts' = TRUE
    /\ UNCHANGED <<up, meta, metaFile, store, nextId, now, compact, crashes>>
    /\ UNCHANGED <<written, nonLive>>

\* ------------------------------------------------------------------
\* commit, and a crash inside it
\* ------------------------------------------------------------------

\* what a call of Utc::now() can return: the clock does not run backwards
Clock == now..MaxTime

\* the durable and in-memory state a handler works on
Cur == [wal |-> wal, store |-> store, meta |-> meta, metaFile |-> metaFile,
        has_inserts |-> has_inserts, nextId |-> nextId]

\* a commit() that clears the WAL before it commits the index
CommitOrderWalFirst == <<"wal_clear", "index_commit", "sync_meta", "has_inserts_false">>

\* the statements of commit() after the batches went to the index writer,
\* in program order
CommitOrder == <<"index_commit", "wal_clear", "sync_meta", "has_inserts_false">>

\* the states one statement of commit() can leave; docs are the documents
\* the loop over the WAL gave to the index writer
CommitStep(step, s, docs, t) ==
    CASE step = "index_commit" ->
           {[s EXCEPT !.store = StoreCommit(s.store, docs, s.nextId),
                      !.nextId = IF docs = <<>> THEN @ ELSE @ + 1]}
      [] step = "wal_clear" -> {[s EXCEPT !.wal = <<>>]}
      [] step = "sync_meta" ->
           {[s EXCEPT !.meta = m, !.metaFile = m] : m \in SyncMeta(s.meta, s.store, t)}
      [] step = "has_inserts_false" -> {[s EXCEPT !.has_inserts = FALSE]}

RECURSIVE RunCommit(_, _, _, _)
RunCommit(steps, S, docs, t) ==
    IF steps = <<>> THEN S
    ELSE RunCommit(Tail(steps),
                   UNION {CommitStep(Head(steps), s, docs, t) : s \in S}, docs, t)

\* the documents a commit of WAL w inserts, in order
CommitDocs(w) ==
    Concat([i \in DOMAIN CommitGroups(w) |-> PrepareWebpages(CommitGroups(w)[i])])

\* the pages of docs were written to the index by a commit at time t
WrittenAt(w, docs, t) ==
    [n \in DOMAIN w |-> IF \E i \in DOMAIN docs : docs[i].n = n THEN t ELSE w[n]]

\* LiveIndex::commit / InnerIndex::commit
Commit ==
    /\ up
    /\ (wal # <<>>) => nextId <= MaxSegId
    /\ \E t \in Clock : \E s \in RunCommit(CommitOrder, {Cur}, CommitDocs(wal), t) :
         /\ now' = t
         /\ wal' = s.wal
         /\ store' = s.store
         /\ meta' = s.meta
         /\ metaFile' = s.metaFile
         /\ has_inserts' = s.has_inserts
         /\ nextId' = s.nextId
         /\ written' = WrittenAt(written, CommitDocs(wal), t)
    /\ last' = [Obs("commit") EXCEPT !.pages = wal, !.groups = CommitGroups(wal),
                                     !.meta0 = meta]
    /\ UNCHANGED <<up, nextPage, compact, crashes>>
    /\ UNCHANGED nonLive

\* the process dies: what is in memory is gone, what is on disk stays
Down ==
    /\ up
    /\ crashes < MaxCrashes
    /\ crashes' = crashes + 1
    /\ up' = FALSE
    /\ meta' = <<>>
    /\ has_inserts' = FALSE
    /\ compact' = Idle

\* the process dies between two operations
Crash ==
    /\ Down
    /\ last' = Obs("crash")
    /\ UNCHANGED <<wal, metaFile, store, nextId, nextPage, now>>
    /\ UNCHANGED <<written, nonLive>>

\* the process dies inside commit(), after k of its statements
CrashInCommit ==
    /\ (wal # <<>>) => nextId <= MaxSegId
    /\ \E k \in 1..(Len(CommitOrder) - 1) : \E t \in Clock :
         \E s \in RunCommit(SubSeq(CommitOrder, 1, k), {Cur}, CommitDocs(wal), t) :
           /\ now' = t
           /\ written' = WrittenAt(written, CommitDocs(wal), t)
           /\ wal' = s.wal
           /\ store' = s.store
           /\ metaFile' = s.metaFile
           /\ nextId' = s.nextId
           /\ last' = Obs("crash_in_commit")
    /\ Down
    /\ UNCHANGED nextPage
    /\ UNCHANGED nonLive

\* an InnerIndex::new that starts with has_inserts false whatever the WAL
\* holds
RestartForgetsWal ==
    /\ ~up
    /\ up' = TRUE
    /\ meta' = metaFile
    /\ has_inserts' = FALSE
    /\ compact' = Idle
    /\ last' = Obs("restart")
    /\ UNCHANGED <<wal, metaFile, store, nextId, nextPage, now, crashes>>
    /\ UNCHANGED <<written, nonLive>>

\* InnerIndex::new on the directory the last process left
Restart ==
    /\ ~up
    /\ up' = TRUE
    /\ meta' = metaFile
    /\ has_inserts' = (Len(wal) > 0)
    /\ compact' = Idle
    /\ last' = Obs("restart")
    /\ UNCHANGED <<wal, metaFile, store, nextId, nextPage, now, crashes>>
    /\ UNCHANGED <<written, nonLive>>

\* ------------------------------------------------------------------
\* prune_segments, delete_all_pages
\* ------------------------------------------------------------------

\* a filter that also takes the segments that reach their TTL just now
OldSegmentsInclusive(m, t) ==
    {m[i].id : i \in {j \in DOMAIN m : m[j].created + TTL <= t}}

\* the filter_map of prune_segments: segment.created + TTL < Utc::now()
OldSegments(m, t) == {m[i].id : i \in {j \in DOMAIN m : m[j].created + TTL < t}}

\* LiveIndex::prune_segments / InnerIndex::prune_segments
PruneSegments ==
    /\ up
    /\ \E t \in Clock :
         LET st == StoreDelete(store, OldSegments(meta, t))
         IN /\ now' = t
            /\ store' = st
            /\ \E m \in SyncMeta(meta, st, t) : meta' = m /\ metaFile' = m
    /\ last' = [Obs("prune") EXCEPT !.meta0 = meta]
    /\ UNCHANGED <<up, wal, has_inserts, nextId, nextPage, compact, crashes>>
    /\ UNCHANGED <<written, nonLive>>

\* a delete_all_pages that deletes the segments and leaves Meta as it is
DeleteAllPagesKeepsMeta ==
    /\ up
    /\ store' = StoreDelete(store, StoreIds(store))
    /\ last' = [Obs("delete_all") EXCEPT !.meta0 = meta]
    /\ UNCHANGED <<up, wal, has_inserts, meta, metaFile, nextId, nextPage, now,
                   compact, crashes>>
    /\ UNCHANGED <<written, nonLive>>

\* a delete_all_pages that clears the write-ahead log as well
DeleteAllPagesClearsWal ==
    /\ up
    /\ store' = StoreDelete(store, StoreIds(store))
    /\ meta' = <<>>
    /\ metaFile' = <<>>
    /\ wal' = <<>>
    /\ has_inserts' = FALSE
    /\ last' = [Obs("delete_all") EXCEPT !.meta0 = meta]
    /\ UNCHANGED <<up, nextId, nextPage, now, compact, crashes>>
    /\ UNCHANGED <<written, nonLive>>

\* LiveIndex::delete_all_pages / InnerIndex::delete_all_pages
DeleteAllPages ==
    /\ up
    /\ store' = StoreDelete(store, StoreIds(store))
    /\ meta' = <<>>
    /\ metaFile' = <<>>
    /\ last' = [Obs("delete_all") EXCEPT !.meta0 = meta]
    /\ UNCHANGED <<up, wal, has_inserts, nextId, nextPage, now, compact, crashes>>
    /\ UNCHANGED <<written, nonLive>>

\* the process dies inside prune_segments or delete_all_pages, after the
\* segments were deleted and before Meta was saved
CrashInDelete ==
    /\ \E ids \in {StoreIds(store)} \cup {OldSegments(meta, t) : t \in Clock} :
         /\ ids \cap StoreIds(store) # {}
         /\ store' = StoreDelete(store, ids)
    /\ Down
    /\ last' = Obs("crash_in_delete")
    /\ UNCHANGED <<wal, metaFile, nextId, nextPage, now>>
    /\ UNCHANGED <<written, nonLive>>

\* ------------------------------------------------------------------
\* compact_segments_by_date
\* ------------------------------------------------------------------

\* prepare_segments_for_compaction: the segments of Meta by date of creation
SegmentsByDate(m) ==
    [d \in {DateNaive(m[i].created) : i \in DOMAIN m} |->
        SelectSeq(m, LAMBDA s : DateNaive(s.created) = d)]

\* a start_compact_segments_by_date that skips groups of two as well
DatesToCompactOverTwo(m) ==
    {d \in DOMAIN SegmentsByDate(m) : Len(SegmentsByDate(m)[d]) > 2}

\* the dates start_compact_segments_by_date merges: segments.len() > 1
DatesToCompact(m) == {d \in DOMAIN SegmentsByDate(m) : Len(SegmentsByDate(m)[d]) > 1}

\* the CompactOperations of phase 1 for the dates in the order the HashMap
\* yields them; empty: the dates whose merge leaves no document
CompactOperations(m, st, order, empty, firstId) ==
    [i \in DOMAIN order |->
        LET segments == SegmentsByDate(m)[order[i]]
            before == Cardinality({j \in 1..(i - 1) : order[j] \notin empty})
            r == StoreStartMerge(st, MetaIds(segments), firstId + before,
                                 order[i] \in empty)
        IN [segments |-> segments, entry |-> r.entry, ok |-> r.ok]]

\* phase 1: LiveIndex::compact_segments_by_date up to the release of the
\* read lock / InnerIndex::start_compact_segments_by_date
StartCompact ==
    /\ up
    /\ compact.pc = "idle"
    /\ \E order \in SetToSeqs(DatesToCompact(meta)) :
       \E empty \in SUBSET DatesToCompact(meta) :
         LET ops == CompactOperations(meta, store, order, empty, nextId)
             made == Cardinality(DatesToCompact(meta) \ empty)
         IN /\ nextId + made - 1 <= MaxSegId
            /\ IF \A i \in DOMAIN ops : ops[i].ok
               THEN /\ compact' = [pc |-> "prepared", meta1 |-> meta,
                                   ops |-> [i \in DOMAIN ops |->
                                             [segments |-> ops[i].segments,
                                              entry |-> ops[i].entry]]]
                    /\ nextId' = nextId + made
                    /\ last' = Obs("compact_start")
               ELSE \* start_merge_segments_by_id(..).await? returned the error
                    /\ empty = {}
                    /\ compact' = Idle
                    /\ nextId' = nextId
                    /\ last' = Obs("compact_failed")
    /\ UNCHANGED <<up, wal, has_inserts, meta, metaFile, store, nextPage, now, crashes>>
    /\ UNCHANGED <<written, nonLive>>

\* an update_meta_after_compaction that does not retain() first
UpdateMetaKeepsOld(m, old_segment_ids, new_segment_id, newest_creation_date) ==
    Append(m, Segment(new_segment_id, newest_creation_date))

\* update_meta_after_compaction
UpdateMetaAfterCompaction(m, old_segment_ids, new_segment_id, newest_creation_date) ==
    Append(SelectSeq(m, LAMBDA s : s.id \notin old_segment_ids),
           Segment(new_segment_id, newest_creation_date))

\* one turn of the loop of end_compact_segments_by_date on state s = [store, meta]
EndOne(s, op) ==
    LET newest_creation_date == Max({op.segments[i].created : i \in DOMAIN op.segments})
        segment_ids == MetaIds(op.segments)
        r == StoreEndMerge(s.store, segment_ids, op.entry)
        res == IF ~r.ok THEN "err" ELSE IF r.id = 0 THEN "none" ELSE "some"
    IN [store |-> r.store,
        meta |-> IF res = "some"
                 THEN UpdateMetaAfterCompaction(s.meta, segment_ids, r.id,
                                                newest_creation_date)
                 ELSE s.meta,
        merges |-> Append(s.merges,
                     [segments |-> op.segments, res |-> res, id |-> r.id,
                      docs |-> StoreDocs(StoreSegs(s.store, segment_ids))])]

RECURSIVE EndLoop(_, _)
\* the loop of end_compact_segments_by_date over the operations
EndLoop(s, ops) == IF ops = <<>> THEN s ELSE EndLoop(EndOne(s, Head(ops)), Tail(ops))

\* phase 2: LiveIndex::compact_segments_by_date from the write lock on /
\* InnerIndex::end_compact_segments_by_date
EndCompact ==
    /\ up
    /\ compact.pc = "prepared"
    /\ LET s == EndLoop([store |-> store, meta |-> meta, merges |-> <<>>], compact.ops)
       IN /\ store' = s.store
          /\ meta' = s.meta
          /\ metaFile' = s.meta
          /\ last' = [Obs("compact_end") EXCEPT !.merges = s.merges,
                                               !.meta1 = compact.meta1,
                                               !.clean = (meta = compact.meta1)]
    /\ compact' = Idle
    /\ UNCHANGED <<up, wal, has_inserts, nextId, nextPage, now, crashes>>
    /\ UNCHANGED <<written, nonLive>>

\* the process dies inside end_compact_segments_by_date, after k merges were
\* ended and before Meta was saved
CrashInEndCompact ==
    /\ compact.pc = "prepared"
    /\ \E k \in 1..Len(compact.ops) :
         LET s == EndLoop([store |-> store, meta |-> meta, merges |-> <<>>],
                          SubSeq(compact.ops, 1, k))
         IN /\ store' = s.store
            /\ last' = [Obs("crash_in_compact") EXCEPT !.merges = s.merges]
    /\ Down
    /\ UNCHANGED <<wal, metaFile, nextId, nextPage, now>>
    /\ UNCHANGED <<written, nonLive>>

Next ==
    \/ Insert
    \/ Commit
    \/ Crash
    \/ CrashInCommit
    \/ Restart
    \/ PruneSegments
    \/ DeleteAllPages
    \/ CrashInDelete
    \/ StartCompact
    \/ EndCompact
    \/ CrashInEndCompact

Spec == Init /\ [][Next]_vars

\* the callers of one live index, the index itself left as it was opened
LockNext ==
    \/ Call
    \/ Acquire
    \/ Step
    \/ Release

LockSpec == Init /\ [][LockNext]_vars

\* one top-docs collection, from the segments to the final fruit
TopNext ==
    \/ CollectSegments
    \/ MergeShards
    \/ MergeCoordinator
    \/ MergeLocal

TopStart ==
    /\ LiveInit
    /\ NoCallers
    /\ TopInit
    /\ NoSearch
    /\ NoLater

TopSpec == TopStart /\ [][TopNext]_vars

\* one call of the distributed searcher
SearchNext ==
    \/ SearchInitial
    \/ Retrieve
    \/ ShardReply
    \/ Join

SearchStart ==
    /\ LiveInit
    /\ NoCallers
    /\ NoCollection
    /\ SearchInit
    /\ NoLater

SearchSpec == SearchStart /\ [][SearchNext]_vars

\* the components of the earlier sections, none of them running
Quiet ==
    /\ LiveInit
    /\ NoCallers
    /\ NoCollection
    /\ NoSearch

\* one call of a generic path of the distributed searcher
GenNext ==
    \/ CallSearchInitialGeneric
    \/ CallRetrieveGeneric
    \/ CallBatchSearchInitialGeneric
    \/ CallBatchRetrieveGeneric

GenStart ==
    /\ Quiet
    /\ GenInit
    /\ NoRouting
    /\ NoAmpc
    /\ NoRobots
    /\ NoSpell
    /\ NoColumn
    /\ NoPhases

GenSpec == GenStart /\ [][GenNext]_vars

\* the cluster changes and the clients are rebuilt
RouteNext ==
    \/ MemberJoins
    \/ MemberSetsState
    \/ RefreshSearchClient
    \/ RefreshLiveIndexClient

RouteStart ==
    /\ Quiet
    /\ NoGeneric
    /\ NoRouting
    /\ NoAmpc
    /\ NoRobots
    /\ NoSpell
    /\ NoColumn
    /\ NoPhases

RouteSpec == RouteStart /\ [][RouteNext]_vars

\* one centrality computation, from the setup to the last round
AmpcNext ==
    \/ Setup
    \/ StartRound
    \/ Dispatch
    \/ MapStep
    \/ JobDone
    \/ JobFails
    \/ Redispatch
    \/ EndRound

AmpcStart ==
    /\ Quiet
    /\ NoGeneric
    /\ NoRouting
    /\ AmpcInit
    /\ NoRobots
    /\ NoSpell
    /\ NoColumn
    /\ NoPhases

AmpcSpec == AmpcStart /\ [][AmpcNext]_vars

\* the coordinator and the workers are running threads: a step that can
\* be taken is taken
AmpcFairSpec == AmpcStart /\ [][AmpcNext]_vars /\ WF_vars(AmpcNext)

\* the cache of the crawler over time
RobotsNext ==
    \/ Tick
    \/ GetStart
    \/ GetFetched

RobotsStart ==
    /\ Quiet
    /\ NoGeneric
    /\ NoRouting
    /\ NoAmpc
    /\ RobotsInit
    /\ NoSpell
    /\ NoColumn
    /\ NoPhases

RobotsSpec == RobotsStart /\ [][RobotsNext]_vars

\* one call of possible_errors
SpellNext ==
    \/ CallPossibleErrors

SpellStart ==
    /\ Quiet
    /\ NoGeneric
    /\ NoRouting
    /\ NoAmpc
    /\ NoRobots
    /\ SpellInit
    /\ NoColumn
    /\ NoPhases

SpellSpec == SpellStart /\ [][SpellNext]_vars

\* one call of sort_order
ColNext ==
    \/ CallSortOrder

ColStart ==
    /\ Quiet
    /\ NoGeneric
    /\ NoRouting
    /\ NoAmpc
    /\ NoRobots
    /\ NoSpell
    /\ ColInit
    /\ NoPhases

ColSpec == ColStart /\ [][ColNext]_vars

\* one compaction of a live index next to its searches
PhaseNext ==
    \/ CompactCall
    \/ Phase1Begins
    \/ Phase1WantsIndex
    \/ Phase1LocksIndex
    \/ StartMerge
    \/ Phase1Ends
    \/ Phase2Begins
    \/ Phase2WantsIndex
    \/ Phase2LocksIndex
    \/ EndMerge
    \/ Phase2Ends
    \/ SearchCall
    \/ SearchLocksIndex
    \/ SearchEnds

PhaseStart ==
    /\ Quiet
    /\ NoGeneric
    /\ NoRouting
    /\ NoAmpc
    /\ NoRobots
    /\ NoSpell
    /\ NoColumn
    /\ PhaseInit

PhaseSpec == PhaseStart /\ [][PhaseNext]_vars


\* ------------------------------------------------------------------
\* Properties
\* ------------------------------------------------------------------

Pages(s) == Range(s)

UrlsOf(ps) == {p.url : p \in ps}

\* C1: after every commit() the segment ids of Meta are the segment ids of
\* the store, whatever the two were before
C1_CommitSyncsMeta ==
    last.op = "commit" => MetaIds(meta) = StoreIds(store)

\* a commit that found Meta and the store apart: it dropped an id the store
\* no longer had and took up an id Meta did not have
C1_Witness ==
    /\ last.op = "commit"
    /\ MetaIds(last.meta0) \ MetaIds(meta) # {}
    /\ MetaIds(meta) \ MetaIds(last.meta0) # {}

Mutations == {"commit", "compact_end", "prune", "delete_all"}

\* C2: after every mutation (commit, compaction, prune, delete_all_pages)
\* the segment ids of Meta are the segment ids of the store
C2_MutationSyncsMeta ==
    last.op \in Mutations => MetaIds(meta) = StoreIds(store)

\* C3: a redone WAL batch indexes nothing a second time: no page is held by
\* two segments of the store
C3_ReplayIndexesOnce ==
    \A s \in store : \A s2 \in store : s.id # s2.id => s.docs \cap s2.docs = {}

\* C4 as claimed: a page that is in the WAL or in the store stays in the WAL
\* or in the store
C4_PageNeverLost ==
    [][\A p \in Pages(wal) \cup StoreDocs(store) :
          p \in Pages(wal') \cup StoreDocs(store')]_vars

\* the operations that delete segments: prune_segments, delete_all_pages and
\* a compaction that ended a merge without documents
Deleting(obs) ==
    \/ obs.op \in {"prune", "delete_all", "crash_in_delete"}
    \/ /\ obs.op \in {"compact_end", "crash_in_compact"}
       /\ \E i \in DOMAIN obs.merges : obs.merges[i].res = "none"

\* C4 amended: insert() leaves the URL of each of its pages in the WAL, and
\* a URL that is in the WAL or in the store stays in the WAL or in the store
\* over every step (a crash inside commit() and the restart included) that is
\* not one of the deleting operations
C4_UrlNeverLost ==
    [][/\ last'.op = "insert" => UrlsOf(Pages(last'.pages)) \subseteq UrlsOf(Pages(wal'))
       /\ ~Deleting(last') =>
            UrlsOf(Pages(wal) \cup StoreDocs(store))
              \subseteq UrlsOf(Pages(wal') \cup StoreDocs(store'))]_vars

\* the process died inside commit() after the WAL was cleared: the pages
\* are in the store only
C4_Witness ==
    /\ ~up
    /\ last.op = "crash_in_commit"
    /\ wal = <<>>
    /\ StoreDocs(store) # {}

\* C5: of the pages of one URL in the WAL, commit() indexes exactly one, the
\* one inserted last
C5_LastWriterWins ==
    last.op = "commit" =>
      \A u \in UrlsOf(Pages(last.pages)) :
        LET indexed == SelectSeq(Concat(last.groups), LAMBDA p : p.url = u)
            ofUrl == {p \in Pages(last.pages) : p.url = u}
        IN /\ Len(indexed) = 1
           /\ indexed[1].n = Max({p.n : p \in ofUrl})

\* C6: insert(pages) appends the pages to the WAL in the order of the slice
\* and sets has_inserts; the store, the searchable pages and Meta, in memory
\* and in meta.json, stay as they are
C6_InsertFrame ==
    [][last'.op = "insert" =>
         /\ wal' = wal \o last'.pages
         /\ has_inserts' = TRUE
         /\ store' = store
         /\ StoreDocs(store') = StoreDocs(store)
         /\ meta' = meta
         /\ metaFile' = metaFile]_vars

\* an insert of two pages behind pages already in the WAL, with segments in
\* the store
C6_Witness ==
    /\ last.op = "insert"
    /\ Len(last.pages) = 2
    /\ Len(wal) > 2
    /\ store # {}

\* C7: when commit() returns the WAL is empty, has_inserts is false, each
\* group handed on holds at most BATCH_SIZE pages, each URL of the WAL is in
\* exactly one group, once, and the pages of the groups are in the store
C7_CommitDrainsWal ==
    last.op = "commit" =>
      /\ wal = <<>>
      /\ has_inserts = FALSE
      /\ \A i \in DOMAIN last.groups :
           Len(last.groups[i]) >= 1 /\ Len(last.groups[i]) <= BATCH_SIZE
      /\ \A u \in UrlsOf(Pages(last.pages)) :
           Cardinality({<<i, j>> \in (DOMAIN last.groups) \X (1..BATCH_SIZE) :
                          /\ j <= Len(last.groups[i])
                          /\ last.groups[i][j].url = u}) = 1
      /\ Pages(Concat(last.groups)) \subseteq StoreDocs(store)

\* a commit of more distinct URLs than one group takes
C7_Witness ==
    /\ last.op = "commit"
    /\ Len(last.groups) = 2
    /\ Cardinality(UrlsOf(Pages(last.pages))) > BATCH_SIZE

Created(segs) == {segs[i].created : i \in DOMAIN segs}

\* C8: for every merge a compaction ended with a new segment m: Meta holds
\* none of the merged ids, holds m once with created = the newest created of
\* the merged segments, and the pages of m in the store are the pages the
\* merged segments had
C8_CompactionPreserves ==
    last.op = "compact_end" =>
      \A k \in DOMAIN last.merges :
        LET mg == last.merges[k]
        IN mg.res = "some" =>
             /\ MetaIds(mg.segments) \cap MetaIds(meta) = {}
             /\ Cardinality({i \in DOMAIN meta : meta[i].id = mg.id}) = 1
             /\ \A i \in DOMAIN meta :
                  meta[i].id = mg.id =>
                    /\ meta[i].created \in Created(mg.segments)
                    /\ \A c \in Created(mg.segments) : c <= meta[i].created
             /\ mg.id \in StoreIds(store)
             /\ StoreSeg(store, mg.id).docs = mg.docs
             /\ MetaIds(mg.segments) \cap StoreIds(store) = {}

\* a merge of two segments created at different times, each with a page
C8_Witness ==
    /\ last.op = "compact_end"
    /\ \E k \in DOMAIN last.merges :
         /\ last.merges[k].res = "some"
         /\ Cardinality(Created(last.merges[k].segments)) > 1
         /\ Cardinality(last.merges[k].docs) > 1

AllMerged(obs) == \A k \in DOMAIN obs.merges : obs.merges[k].res = "some"

OnePerDate(segs) ==
    \A s \in segs : \A s2 \in segs :
      s # s2 => DateNaive(s.created) # DateNaive(s2.created)

\* the segments of m that are the only one of their date
Singles(m) ==
    {s \in Range(m) :
       \A s2 \in Range(m) : s2 # s => DateNaive(s2.created) # DateNaive(s.created)}

\* the segments that were alone on their date in phase 1 and that the store
\* still has
SinglesLeft == {s \in Singles(last.meta1) : s.id \in StoreIds(store)}

\* C9 as claimed: after a compaction whose merges all succeeded Meta has at
\* most one segment per date, a segment that was alone on its date is in
\* Meta as it was, and only groups of two or more were merged
C9_OnePerDate ==
    last.op = "compact_end" /\ AllMerged(last) =>
      /\ OnePerDate(Range(meta))
      /\ SinglesLeft \subseteq Range(meta)
      /\ \A k \in DOMAIN last.merges : Len(last.merges[k].segments) >= 2

\* C9 amended: after a compaction whose merges all succeeded, the segments
\* Meta had in phase 1 and the merged segments are at most one per date, and
\* only groups of two or more segments of one date were merged; when Meta
\* did not change between the phases, Meta has at most one segment per date;
\* a segment that was alone on its date is in Meta as it was, unless a prune
\* or delete_all_pages between the phases deleted it
C9_OnePerDateOfPhase1 ==
    last.op = "compact_end" /\ AllMerged(last) =>
      /\ OnePerDate({s \in Range(meta) :
                       \/ s.id \in MetaIds(last.meta1)
                       \/ \E k \in DOMAIN last.merges : last.merges[k].id = s.id})
      /\ \A k \in DOMAIN last.merges :
           /\ Len(last.merges[k].segments) >= 2
           /\ Cardinality({DateNaive(c) : c \in Created(last.merges[k].segments)}) = 1
           /\ Range(last.merges[k].segments) \cap Singles(last.meta1) = {}
      /\ SinglesLeft \subseteq Range(meta)
      /\ last.clean =>
           /\ OnePerDate(Range(meta))
           /\ Singles(last.meta1) \subseteq Range(meta)

\* a compaction that merged the two segments of one date and left the only
\* segment of another date alone
C9_Witness ==
    /\ last.op = "compact_end"
    /\ last.clean
    /\ last.merges # <<>>
    /\ AllMerged(last)
    /\ Singles(last.meta1) # {}

\* C10: when end_merge returns None, Meta holds none of the merged ids
\* afterwards (and no new entry)
C10_NoneDropsInputs ==
    last.op = "compact_end" =>
      \A k \in DOMAIN last.merges :
        last.merges[k].res = "none" =>
          MetaIds(last.merges[k].segments) \cap MetaIds(meta) = {}

\* C11: prune_segments() removes exactly the expired segments: a segment of
\* Meta with created + TTL < now is afterwards in neither Meta nor the store,
\* and a segment with created + TTL >= now that was in Meta and in the store
\* is still in both, with the same created
C11_PruneRemovesExpired ==
    [][last'.op = "prune" =>
        \A i \in DOMAIN meta :
            IF meta[i].created + TTL < now'
            THEN /\ meta[i].id \notin MetaIds(meta')
                 /\ meta[i].id \notin StoreIds(store')
            ELSE meta[i].id \in StoreIds(store) =>
                    /\ meta[i].id \in StoreIds(store')
                    /\ \E j \in DOMAIN meta' : meta'[j] = meta[i]]_vars

\* a prune that found an expired segment and a fresh one: the first is gone,
\* the second is still listed
C11_Witness ==
    /\ last.op = "prune"
    /\ \E i \in DOMAIN last.meta0 :
         /\ last.meta0[i].created + TTL < now
         /\ last.meta0[i].id \notin MetaIds(meta)
    /\ \E i \in DOMAIN last.meta0 :
         /\ last.meta0[i].created + TTL >= now
         /\ last.meta0[i].id \in MetaIds(meta) \cap StoreIds(store)

\* C12: after delete_all_pages() the store has no segment, Meta is empty in
\* memory and in meta.json, and no page is searchable
C12_DeleteAllEmpties ==
    last.op = "delete_all" =>
        /\ store = {}
        /\ meta = <<>>
        /\ metaFile = <<>>
        /\ StoreDocs(store) = {}

\* a delete_all_pages that found committed segments listed in Meta
C12_Witness ==
    /\ last.op = "delete_all"
    /\ last.meta0 # <<>>
    /\ nextId > 1
    /\ store = {}

\* the task is inside a write operation: a method that changes the
\* InnerIndex (&mut self), or Phase 2 of a compaction
Writing(t) ==
    /\ task[t].pc = "holding"
    /\ \/ task[t].m \in {"insert", "commit", "prune_segments", "delete_all_pages"}
       \/ task[t].m = "compact_segments_by_date" /\ task[t].sec = 2

\* a compact_segments_by_date() call that finished Phase 1 and has not
\* started Phase 2
BetweenPhases(t) ==
    /\ task[t].m = "compact_segments_by_date"
    /\ task[t].sec = 2
    /\ task[t].pc = "waiting"

\* C13 (as far as it holds): while insert, commit, prune_segments,
\* delete_all_pages or Phase 2 of a compaction is between its start and its
\* end, no step of another method of the same live index executes
C13_WritesSerialised ==
    \A t \in Tasks : Writing(t) =>
        \A u \in Tasks \ {t} : task[u].pc # "holding"

\* C13 (as claimed): write operations are serialised, and none executes
\* between Phase 1 and Phase 2 of a compact_segments_by_date() call
C13_NoWriteBetweenPhases ==
    /\ C13_WritesSerialised
    /\ \A t \in Tasks : BetweenPhases(t) =>
          \A u \in Tasks \ {t} : ~Writing(u)

\* a write operation in the middle of its body while another caller waits
\* for the lock, its compaction between the phases or not yet started
C13_Witness ==
    \E t \in Tasks, u \in Tasks :
        /\ t # u
        /\ Writing(t)
        /\ task[t].step > 0
        /\ task[u].pc = "waiting"
        /\ task[u].m \in {"insert", "commit"}

\* the final fruit of a collection in perform-offset mode is there
Collected == tpc \in {"merged", "local"}

Ranks(s) == [i \in DOMAIN s |-> s[i].rank]

AllCandidates == [i \in DOMAIN corpus |-> Candidate(corpus, i)]

\* the offset and the limit of the query, both given
Window(s) == Take(Skip(s, collector.offset), collector.limit)

\* C14: with host deduplication, in perform-offset mode, whatever the
\* candidates and the fruits they are spread over: the returned list has at
\* most limit items, no two of one host, in non-decreasing rank
C14_DedupDistinctSorted ==
    (Collected /\ collector.dedup) =>
        /\ collector.limit # None => Len(result) <= collector.limit
        /\ \A i \in DOMAIN result : \A j \in DOMAIN result :
              i < j => /\ result[i].host # result[j].host
                       /\ result[i].rank <= result[j].rank

\* the coordinator skipped one host and returned another, of candidates of
\* one host that came in the fruits of two shards
C14_Witness ==
    /\ tpc = "merged"
    /\ collector.dedup
    /\ collector.limit = 1
    /\ collector.offset = 1
    /\ Len(result) = 1
    /\ \E i \in DOMAIN corpus : \E j \in DOMAIN corpus :
          /\ corpus[i].host = corpus[j].host
          /\ corpus[i].seg = 1
          /\ corpus[j].seg = 3

\* the lowest rank of the candidates of a host
BestRank(h) == Min({corpus[i].rank : i \in {j \in DOMAIN corpus : corpus[j].host = h}})

\* the best (lowest) candidate of each host, ascending
BestPerHost ==
    SortComparable(KeepAt(AllCandidates,
        {i \in DOMAIN corpus : \A j \in DOMAIN corpus :
            corpus[j].host = corpus[i].host =>
                ~ComparableLess(Candidate(corpus, j), Candidate(corpus, i))}))

\* C15: host deduplication keeps the lowest-rank candidate of each host and
\* offset and limit apply after it: the result has the ranks of positions
\* offset .. offset+limit-1 of the best candidates of the hosts sorted by
\* rank, and every item has the best rank of its host, whichever fruit the
\* candidates came in
C15_DedupKeepsBest ==
    (Collected /\ collector.dedup /\ collector.limit # None /\ collector.offset # None) =>
        /\ Ranks(result) = Ranks(Window(BestPerHost))
        /\ \A i \in DOMAIN result : result[i].rank = BestRank(result[i].host)

\* C16: without deduplication, the coordinator's merge of the shard fruits
\* has the ranks of positions offset .. offset+limit-1 of all candidates
\* sorted by rank, and every candidate of that window is in the fruit of
\* its shard
C16_TwoLevelIsGlobal ==
    (tpc = "merged" /\ ~collector.dedup /\ collector.limit # None /\ collector.offset # None) =>
        /\ Ranks(result) = Ranks(Window(SortComparable(AllCandidates)))
        /\ \A i \in DOMAIN Window(SortComparable(AllCandidates)) :
              \E sh \in Shards : \E k \in DOMAIN shardFruits[sh] :
                  shardFruits[sh][k].rank = Window(SortComparable(AllCandidates))[i].rank

\* C17: retrieve_webpages groups the pointers by their shard: one request
\* per distinct shard, holding only pointers of that shard, and every input
\* pointer in exactly one request
C17_PointersStayOnShard ==
    spc \in {"waiting", "done"} =>
        /\ \A k \in DOMAIN futures : \A j \in DOMAIN futures[k].pointers :
              /\ top_websites[futures[k].pointers[j][1]].shard = futures[k].shard
              /\ top_websites[futures[k].pointers[j][1]].website.pointer
                    = futures[k].pointers[j][2]
        /\ \A k \in DOMAIN futures : \A l \in DOMAIN futures :
              k # l => futures[k].shard # futures[l].shard
        /\ {futures[k].shard : k \in DOMAIN futures}
              = {top_websites[i].shard : i \in DOMAIN top_websites}
        /\ \A i \in DOMAIN top_websites :
              Cardinality({kj \in {<<k, j>> : k \in DOMAIN futures, j \in 1..NumPages} :
                  /\ kj[2] \in DOMAIN futures[kj[1]].pointers
                  /\ futures[kj[1]].pointers[kj[2]][1] = i}) = 1

\* three pointers of two shards were grouped into two requests
C17_Witness ==
    /\ spc = "waiting"
    /\ Len(top_websites) = 3
    /\ Len(futures) = 2

\* the place of a page in top_websites
Pos(d) == CHOOSE i \in DOMAIN top_websites : top_websites[i].website.pointer = d

\* C18: the pages retrieve_webpages returns are in the order of their
\* pointers in top_websites, and each page carries the ranking of the
\* pointer it was retrieved for
C18_InputOrderAndPairing ==
    out.status = "returned" =>
        /\ \A k \in DOMAIN out.pages : out.pages[k].ranking.pointer = out.pages[k].page
        /\ \A k \in DOMAIN out.pages : \A l \in DOMAIN out.pages :
              k < l => Pos(out.pages[k].page) < Pos(out.pages[l].page)

\* all three pages came back, the shard of the first pointer was asked
\* second and holds the third pointer as well
C18_Witness ==
    /\ out.status = "returned"
    /\ Len(out.pages) = 3
    /\ Len(futures) = 2
    /\ futures[2].shard = top_websites[1].shard
    /\ top_websites[3].shard = top_websites[1].shard

\* the pointers whose shard answered with its pages
Answered ==
    {i \in DOMAIN top_websites :
        \E k \in DOMAIN futures :
            /\ futures[k].shard = top_websites[i].shard
            /\ replies[k].outcome = "ok"}

\* C19: when the request to a shard fails or the shard is gone,
\* retrieve_webpages still returns, without a panic, the pages of the
\* pointers of the other shards in input order
C19_ShardFailureIsLocal ==
    spc = "done" =>
        /\ out.status = "returned"
        /\ [k \in DOMAIN out.pages |-> out.pages[k].page]
              = KeepAt([i \in DOMAIN top_websites |-> top_websites[i].website.pointer],
                       Answered)

\* C20: search_initial returns one result per shard that answered with a
\* result, tagged with the id of that shard, at most one per shard; the
\* other shards are left out, and a failed send gives the empty list
C20_InitialPerAnsweringShard ==
    spc = "initial_done" =>
        /\ ~sent.ok => initial = <<>>
        /\ sent.ok =>
              /\ {initial[k].shard : k \in DOMAIN initial}
                    = {sent.entries[e].shard : e \in
                          {x \in DOMAIN sent.entries :
                              \E r \in DOMAIN sent.entries[x].replies :
                                  sent.entries[x].replies[r].some}}
              /\ \A k \in DOMAIN initial : \A l \in DOMAIN initial :
                    k # l => initial[k].shard # initial[l].shard
              /\ \A k \in DOMAIN initial : initial[k].local_result.from = initial[k].shard

\* one shard answered with a result, the other answered without one
C20_Witness ==
    /\ spc = "initial_done"
    /\ sent.ok
    /\ Len(sent.entries) = 2
    /\ Len(initial) = 1

\* the responses of position i that decoded to Ok in the call that ended
OkResponses(i) ==
    {Decoded(s, i) : s \in {x \in GenShards :
        /\ gsent.how[x].kind = "reply"
        /\ gsent.how[x].res[i]}}

\* C21: when batch_search_initial_generic returns its fruits, there is one
\* per query, and fruit i is the coordinator merge of exactly the responses
\* at position i of the shards that answered, those that decode to an
\* error left out; no response of another position is merged into it
C21_BatchMergesPositionWise ==
    (gpc = "done" /\ gcall.fn = "batch_search_initial_generic" /\ gret.status = "ok") =>
        /\ Len(gret.value) = gcall.n
        /\ \A i \in 1..gcall.n :
              /\ gret.value[i].query = i
              /\ Range(gret.value[i].of) = OkResponses(i)
              /\ Len(gret.value[i].of) = Cardinality(OkResponses(i))

\* a batch of two queries where each shard answers one position with a
\* fruit and the other with an error
C21_Witness ==
    /\ gpc = "done"
    /\ gcall.fn = "batch_search_initial_generic"
    /\ gcall.n = 2
    /\ gret.status = "ok"
    /\ gsent.how[1] = [kind |-> "reply", res |-> <<TRUE, FALSE>>]
    /\ gsent.how[2] = [kind |-> "reply", res |-> <<FALSE, TRUE>>]
    /\ gret.value[1].of = <<Decoded(1, 1)>>
    /\ gret.value[2].of = <<Decoded(2, 2)>>

\* C22: in search_initial_generic, retrieve_generic and
\* batch_retrieve_generic a shard whose request fails or whose response
\* decodes to an error is left out, and the call returns Ok with the
\* outputs of the other shards
C22_FailingShardNeverFailsCall ==
    (/\ gpc = "done"
     /\ gcall.fn \in {"search_initial_generic", "retrieve_generic", "batch_retrieve_generic"}
     /\ gsent.send_ok
     /\ \A i \in 1..gcall.n : gsent.merge_ok[i]) =>
        /\ gret.status = "ok"
        /\ gcall.fn = "search_initial_generic" =>
              Range(gret.value[1].of) = OkResponses(1)
        /\ gcall.fn = "retrieve_generic" =>
              Range(gret.value) = OkResponses(1)
        /\ gcall.fn = "batch_retrieve_generic" =>
              \A i \in 1..gcall.n : Range(gret.value[i]) = OkResponses(i)

\* the addresses a client holds for a shard, none when it has no entry
Replicas(client, s) == IF s \in DOMAIN client.shards THEN Range(client.shards[s]) ELSE {}

\* the members of one service and shard a client was built from
MembersOf(client, service, s) ==
    {client.from[i] : i \in {x \in DOMAIN client.from :
        /\ client.from[x].service = service
        /\ client.from[x].shard = s}}

\* C23: the search client holds, for a shard, the host of every Searcher
\* member and the search_host of every LiveIndex member of that shard
\* whose state is Ready; the live-index client holds the host of every
\* Ready LiveIndex member and nothing else; a shard without such a member
\* has no entry
C23_OnlyReadyIsRoutable ==
    /\ search_client.built =>
          /\ \A s \in RouteShards :
                Replicas(search_client, s) =
                    {m.host : m \in MembersOf(search_client, "Searcher", s)} \cup
                    {m.search_host : m \in {x \in MembersOf(search_client, "LiveIndex", s) :
                                                x.state = "Ready"}}
          /\ \A s \in DOMAIN search_client.shards : search_client.shards[s] # <<>>
    /\ live_client.built =>
          /\ \A s \in RouteShards :
                Replicas(live_client, s) =
                    {m.host : m \in {x \in MembersOf(live_client, "LiveIndex", s) :
                                         x.state = "Ready"}}
          /\ \A s \in DOMAIN live_client.shards : live_client.shards[s] # <<>>

\* both clients built from a cluster with a searcher and a ready live
\* index on shard 1 and a live index in setup on shard 2
C23_Witness ==
    /\ search_client.built
    /\ live_client.built
    /\ search_client.from = live_client.from
    /\ Len(members) = 3
    /\ search_client.from = members
    /\ members[1].service = "Searcher" /\ members[1].shard = 1
    /\ members[2].service = "LiveIndex" /\ members[2].shard = 1 /\ members[2].state = "Ready"
    /\ members[3].service = "LiveIndex" /\ members[3].shard = 2 /\ members[3].state = "InSetup"
    /\ DOMAIN search_client.shards = {1}
    /\ search_client.shards[1] = << <<1, "host">>, <<2, "search_host">> >>
    /\ live_client.shards[1] = << <<2, "host">> >>

\* C24: a job is schedulable on a worker exactly when their shards are
\* equal, and the job a worker runs is always one of its own shard
C24_JobRunsOnItsShard ==
    /\ \A job \in CentralityJobs : \A w \in Workers :
          IsSchedulable(job, RemoteWorkers[w]) <=> job.shard = RemoteWorkers[w].shard
    /\ \A w \in DOMAIN workers :
          workers[w].job # NoJob => workers[w].job.shard = RemoteWorkers[w].shard

\* both workers run their jobs in the second round
C24_Witness ==
    /\ coord.round = 2
    /\ \A w \in DOMAIN workers : workers[w].job = [shard |-> RemoteWorkers[w].shard]
    /\ DOMAIN workers = Workers

\* C25: no step lowers the centrality of a node, and once the coordinator
\* has seen a round end with round_had_changes false no step writes to
\* the tables, a job run again included; that last round itself left
\* the counters and the centrality as they were
C25_MonotoneAndQuiescent ==
    [][/\ \A n \in DOMAIN dht.centrality : dht'.centrality[n] >= dht.centrality[n]
       /\ coord.pc = "finished" => dht' = dht
       /\ coord'.pc = "finished" =>
             /\ dht'.counters = prev'.counters
             /\ dht'.centrality = prev'.centrality]_vars

\* after the coordinator finished a computation that raised a centrality,
\* a worker runs a job once more and is part of the way through it
C25_Witness ==
    /\ coord.pc = "finished"
    /\ coord.round >= 3
    /\ \E n \in DOMAIN dht.centrality : dht.centrality[n] > Scale
    /\ \E w \in DOMAIN workers :
          /\ workers[w].job # NoJob
          /\ Len(workers[w].todo) < Len(GraphOf(edges, RemoteWorkers[w].shard))

\* the jobs of the running round: waiting, running or done
Accounted ==
    coord.pending \cup coord.done \cup
        {workers[w].job : w \in {x \in DOMAIN workers : workers[x].job # NoJob}}

RECURSIVE ReachWithin(_, _, _)
\* the hosts with a path of at most k edges to n
ReachWithin(es, n, k) ==
    IF k = 0 THEN {n}
    ELSE LET near == ReachWithin(es, n, k - 1)
         IN near \cup {es[i][1] : i \in {x \in DOMAIN es : es[x][2] \in near}}

RECURSIVE HarmonicSum(_, _, _)
\* the sum of 1 / distance over the hosts that reach n within k edges, as
\* a multiple of 1 / Scale
HarmonicSum(es, n, k) ==
    IF k = 0 THEN 0
    ELSE HarmonicSum(es, n, k - 1)
         + ((Cardinality(ReachWithin(es, n, k)) - Cardinality(ReachWithin(es, n, k - 1)))
            * Scale) \div k

Abs(x) == IF x < 0 THEN 0 - x ELSE x

\* C27: for every node the centrality the coordinator ends with, divided
\* by num_nodes - 1, is within 1e-4 of the harmonic centrality of the
\* node in the combined graph
C27_DistributedEqualsSingle ==
    coord.pc = "finished" =>
        \A n \in HostNodes(edges) :
            Abs(HarmonicSum(edges, n, NumNodes) - dht.centrality[n]) * 10000
                < Scale * (Cardinality(HostNodes(edges)) - 1)

\* a path over three hosts whose two edges lie on different workers: the
\* last host is reached from one host at distance 1 and one at distance 2
C27_Witness ==
    /\ coord.pc = "finished"
    /\ edges = << <<1, 2>>, <<2, 3>> >>
    /\ dht.centrality[3] = Scale + Scale \div 2
    /\ dht.centrality[2] = Scale
    /\ dht.centrality[1] = 0

\* the time since the last check of an entry at the latest get()
Elapsed(entry) == robs.at - entry.last_check

\* C28: is_expired is false for an Unreachable entry whatever the
\* expiration and the time elapsed, so a get() that finds one neither
\* fetches again nor prunes it away; a Found or Unavailable entry is
\* expired exactly when the time since last_check is at least the
\* expiration
C28_UnreachableNeverExpires ==
    /\ \A r \in Lookups : \A c \in 0..MaxClock : \A e \in 0..MaxExpiration :
       \A t \in c..MaxClock :
          IsExpired(CheckedRobotsTxt(r, c), e, t) <=> (r # "Unreachable" /\ t - c >= e)
    /\ robs.op = "get" =>
          /\ \A s \in Sites :
                robs.before[s].robots = "Unreachable" =>
                    /\ robs.after[s] = robs.before[s]
                    /\ s = robs.site => ~robs.update
          /\ \A s \in Sites :
                robs.before[s].robots \in {"Found", "Unavailable"} =>
                    /\ robs.pruned =>
                          (robs.after[s] = Absent <=> Elapsed(robs.before[s]) >= cache_expiration)
                    /\ s = robs.site =>
                          (robs.update <=> Elapsed(robs.before[s]) >= cache_expiration)

\* a get() for a site whose entry is Unreachable and older than the
\* expiration, which prunes the Found entry of the other site
C28_Witness ==
    /\ robs.op = "get"
    /\ robs.pruned
    /\ robs.before[robs.site].robots = "Unreachable"
    /\ Elapsed(robs.before[robs.site]) > cache_expiration
    /\ cache[robs.site].robots = "Unreachable"
    /\ \E s \in Sites : robs.before[s].robots = "Found" /\ robs.after[s] = Absent

\* C29: possible_errors gives None exactly for two equal strings, and for
\* two different strings Some sequence that holds at least one error
C29_NoneIffEqual ==
    errs # NotCalled =>
        /\ ~errs.some <=> str_a = str_b
        /\ str_a # str_b => (errs.some /\ Len(errs.errors) > 0)

\* two strings of the same letters in another order, told apart by two
\* substitutions
C29_Witness ==
    /\ str_a = <<1, 2>>
    /\ str_b = <<2, 1>>
    /\ errs = SomeErrors(<<Substitution(2, 1), Substitution(1, 2)>>)

\* where a doc stands in the order sort_order returned
Place(doc) == CHOOSE k \in DOMAIN doc_order : doc_order[k] = doc

\* the score sort_order gives a row that has a value
ScoreOf(doc) == CoerceF32(column[doc][1])

\* C30: sort_order returns a permutation of the docs 0..num_docs-1; when
\* not reversed every row without a value comes before every row with a
\* value; two rows with values of equal score keep the order of their
\* doc ids
C30_MissingRowsFirst ==
    doc_order # NotSorted =>
        /\ Len(doc_order) = Cardinality(DOMAIN column)
        /\ Range(doc_order) = DOMAIN column
        /\ ~reversed =>
              \A i \in DOMAIN column : \A j \in DOMAIN column :
                  (column[i] = <<>> /\ column[j] # <<>>) => Place(i) < Place(j)
        /\ \A i \in DOMAIN column : \A j \in DOMAIN column :
              (/\ i < j
               /\ column[i] # <<>>
               /\ column[j] # <<>>
               /\ ScoreOf(i) = ScoreOf(j)) => Place(i) < Place(j)

\* the candidates of a segment, in doc id order
CandidatesOf(seg) == KeepAt(AllCandidates, {i \in DOMAIN corpus : corpus[i].seg = seg})

\* the segment collectors have harvested
Harvested == tpc # "segments" /\ tpc # "off"

\* C31 as stated: the segment-local computer retains all candidates, sorted
\* by rank, whenever limit or offset is unset, and keeps the best
\* limit + offset + DEDUPLICATION_BUFFER only when both are set
C31_AllUnlessBothSet ==
    Harvested =>
        \A seg \in Segments :
            IF collector.limit = None \/ collector.offset = None
            THEN /\ Len(segFruits[seg]) = Len(CandidatesOf(seg))
                 /\ Ranks(segFruits[seg]) = Ranks(SortByRank(CandidatesOf(seg)))
            ELSE segFruits[seg] =
                    Take(SortComparable(CandidatesOf(seg)),
                         collector.limit + collector.offset + DEDUPLICATION_BUFFER)

\* C31: the segment-local computer retains all candidates, sorted by rank,
\* exactly when limit is unset; when limit is set it keeps the best
\* limit + offset + DEDUPLICATION_BUFFER candidates, an unset offset
\* counting as 0
C31_AllIffNoLimit ==
    Harvested =>
        \A seg \in Segments :
            IF collector.limit = None
            THEN /\ Len(segFruits[seg]) = Len(CandidatesOf(seg))
                 /\ Ranks(segFruits[seg]) = Ranks(SortByRank(CandidatesOf(seg)))
            ELSE segFruits[seg] =
                    Take(SortComparable(CandidatesOf(seg)),
                         collector.limit
                         + (IF collector.offset = None THEN 0 ELSE collector.offset)
                         + DEDUPLICATION_BUFFER)

\* a segment with three candidates was harvested with a limit of 1 and no
\* offset, and its fruit has two of them
C31_Witness ==
    /\ Harvested
    /\ collector.limit = 1
    /\ collector.offset = None
    /\ \E seg \in Segments :
          /\ Len(CandidatesOf(seg)) = 3
          /\ Len(segFruits[seg]) = 2

\* C32: on every execution of retrieve_webpages, whatever the shards
\* answer, the call returns without a panic one page per input pointer,
\* and the reply of every shard pairs one-to-one with the pointers sent to
\* it
C32_OnePagePerPointer ==
    spc = "done" =>
        /\ out.status = "returned"
        /\ Len(out.pages) = Len(top_websites)
        /\ \A k \in DOMAIN futures :
              /\ ~replies[k].panic
              /\ [j \in DOMAIN replies[k].pages |-> replies[k].pages[j][1]]
                    = [j \in DOMAIN futures[k].pointers |-> futures[k].pointers[j][1]]

\* a retrieve call of the generic paths has ended
Retrieved == gpc = "done" /\ gcall.fn \in {"retrieve_generic", "batch_retrieve_generic"}

\* C33: in retrieve_generic and batch_retrieve_generic every shard of the
\* connection is handed exactly one request per call, with one entry per
\* query, and the fruit of entry i for shard S holds the documents of
\* coordinator fruit i that belong to S and no other; when the batch path
\* returns Ok every reply it took had one output per query, and output i
\* of a shard is in position i of the result
C33_FruitFilteredForItsShard ==
    Retrieved =>
        /\ \A s \in GenShards :
              Cardinality({k \in DOMAIN gsent.pushes : gsent.pushes[k].shard = s}) = 1
        /\ \A k \in DOMAIN gsent.pushes :
              /\ Len(gsent.pushes[k].requests) = gcall.n
              /\ \A i \in 1..gcall.n :
                    /\ gsent.pushes[k].requests[i].query = i
                    /\ gsent.pushes[k].requests[i].fruit \subseteq gcall.fruits[i]
                    /\ \A d \in gcall.fruits[i] :
                          d \in gsent.pushes[k].requests[i].fruit
                              <=> d.shard = gsent.pushes[k].shard
        /\ (gcall.fn = "batch_retrieve_generic" /\ gret.status = "ok") =>
              /\ \A s \in GenShards :
                    gsent.how[s].kind = "reply" => Len(gsent.how[s].res) = gcall.n
              /\ Len(gret.value) = gcall.n
              /\ \A i \in 1..gcall.n :
                    /\ \A j \in DOMAIN gret.value[i] : gret.value[i][j].query = i
                    /\ {gret.value[i][j].shard : j \in DOMAIN gret.value[i]}
                          = {s \in GenShards : gsent.how[s].kind = "reply"}
                    /\ Len(gret.value[i]) =
                          Cardinality({s \in GenShards : gsent.how[s].kind = "reply"})

\* a batch of two queries whose first fruit holds documents of both shards
\* was retrieved from two shards that both answered
C33_Witness ==
    /\ Retrieved
    /\ gcall.fn = "batch_retrieve_generic"
    /\ gcall.n = 2
    /\ gcall.fruits[1] = FruitDocs
    /\ gcall.fruits[2] = {[shard |-> 2]}
    /\ gret.status = "ok"
    /\ Len(gret.value[1]) = 2
    /\ gsent.pushes[1].requests[2].fruit = {}

\* the time of the most recent commit that wrote a page of the segment
LastWrite(seg) == Max({written[p.n] : p \in seg.docs})

\* C34: over any sequence of insert, commit, compaction, prune, crash and
\* restart, the creation time Meta records for a segment of the index, in
\* memory or in meta.json, is never later than the most recent commit that
\* wrote one of the pages of the segment
C34_TtlNeverReset ==
    \A m \in {meta, metaFile} : \A i \in DOMAIN m :
        (m[i].id \in StoreIds(store) /\ StoreSeg(store, m[i].id).docs # {}) =>
            m[i].created <= LastWrite(StoreSeg(store, m[i].id))

\* a search waits for its read lock on the index
SearchWaits(s) == searches[s] = "index_read_wait"

\* C35: while a compaction is in Phase 1 it holds no exclusive lock, neither
\* on the state of the live index nor on the index, so a search that asks
\* for the read lock of the index is not kept waiting by it
C35_Phase1SharedOnly ==
    compaction.phase = 1 =>
        /\ state_lock.writer # Compactor
        /\ index_lock.writer # Compactor
        /\ \A s \in Searches : SearchWaits(s) => CanLock(index_lock, "read")

\* the step is Phase 2 of a compaction that Phase 1 prepared
EndsCompaction == compact.pc = "prepared" /\ last'.op = "compact_end"

C37_DeleteAllKeepsWal ==
    [][/\ last'.op = "delete_all" =>
            /\ wal' = wal
            /\ has_inserts' = has_inserts
       /\ (last.op = "delete_all" /\ last'.op = "commit") =>
            /\ Pages(UniqueByUrl(wal)) \subseteq StoreDocs(store')
            /\ UrlsOf(Pages(wal)) \subseteq UrlsOf(StoreDocs(store'))]_vars

\* delete_all_pages ran on committed segments while two inserted pages
\* waited in the WAL for their commit
C37_Witness ==
    /\ last.op = "delete_all"
    /\ last.meta0 # <<>>
    /\ Len(wal) = 2
    /\ has_inserts
    /\ store = {}

\* C38: in every state of a running live index, right after a restart
\* included, a WAL that holds pages means has_inserts is true
C38_WalImpliesHasInserts ==
    (up /\ wal # <<>>) => has_inserts

\* a live index was opened again on a WAL that holds the pages of a commit
\* that never happened
C38_Witness ==
    /\ up
    /\ last.op = "restart"
    /\ wal # <<>>
    /\ has_inserts

\* the entry the latest fetch left for its site
Fetched == robs.after[robs.site].robots

\* C39: a fetch of robots.txt asks https first and http only when https
\* gave no robots.txt, at most two requests; the result is Found when https
\* is Found; when https is Unavailable it is Found if http is Found and
\* Unavailable otherwise; when https is Unreachable it is what http gives;
\* so it is Unreachable only when both are Unreachable. is_allowed refuses
\* every URL whatever a robots.txt says only for an Unreachable result,
\* allows every URL for Unavailable, and follows the robots.txt it found
C39_FetchDecisionTable ==
    robs.op = "fetch" =>
        /\ Len(robs.requests) <= 2
        /\ robs.requests[1] = "https"
        /\ robs.https = "Found" => (robs.requests = <<"https">> /\ Fetched = "Found")
        /\ robs.https # "Found" => robs.requests = <<"https", "http">>
        /\ robs.https = "Unavailable" =>
              Fetched = (IF robs.http = "Found" THEN "Found" ELSE "Unavailable")
        /\ robs.https = "Unreachable" => Fetched = robs.http
        /\ Fetched = "Unreachable" <=>
              (robs.https = "Unreachable" /\ robs.http = "Unreachable")
        /\ (\A rule \in BOOLEAN : ~robs.allowed[rule]) <=> Fetched = "Unreachable"
        /\ Fetched = "Unavailable" => \A rule \in BOOLEAN : robs.allowed[rule]
        /\ Fetched = "Found" => \A rule \in BOOLEAN : robs.allowed[rule] = rule

\* https was unreachable and http had the robots.txt of the site
C39_Witness ==
    /\ robs.op = "fetch"
    /\ robs.https = "Unreachable"
    /\ robs.http = "Found"
    /\ robs.requests = <<"https", "http">>
    /\ cache[robs.site].robots = "Found"
    /\ robs.allowed[TRUE]
    /\ ~robs.allowed[FALSE]

====
